---------------------------- MODULE Spec2Model ----------------------------
(***************************************************************************)
(* A model of the SSTable on-disk codec of sstables/sstables.cc and        *)
(* sstables/types.hh: the byte reader, the scalar and shape parsers, the   *)
(* summary and statistics readers, read_indexes and the load sequence.     *)
(*                                                                         *)
(* Representation.  A byte is a number in 0..255.  An unsigned integer of  *)
(* n bytes held in memory is the tuple of its n bytes in host order, least *)
(* significant byte first (the host is little-endian, see types.hh:80), so *)
(* that 32- and 64-bit values keep their width.  net::ntoh and net::hton   *)
(* are the byte swap they are on such a host.  A size_t is 8 bytes.        *)
(***************************************************************************)
EXTENDS Integers, Sequences, FiniteSets, TLC

VARIABLES
    sst,    \* the sstable object and the position of load() in its chain
    mp,     \* a run of the disk_hash parser
    stt,    \* a run of the statistics parser
    sm,     \* a run of the summary parser
    ix,     \* a run of read_indexes
    wr,     \* a value written to an output stream and parsed back
    sto,    \* the position of store() in its chain
    dr,     \* a call of data_read
    toc     \* a run of read_toc

vars == <<sst, mp, stt, sm, ix, wr, sto, dr, toc>>

-----------------------------------------------------------------------------
(* Bytes and fixed-width unsigned integers                                 *)

Byte == 0..255

Zeros(n) == [i \in 1..n |-> 0]

Reverse(s) == [i \in 1..Len(s) |-> s[Len(s) + 1 - i]]

Front(s) == SubSeq(s, 1, Len(s) - 1)

Min(a, b) == IF a <= b THEN a ELSE b

\* The host-order bytes of a small number n, in w bytes.
RECURSIVE FromNat(_, _)
FromNat(n, w) == IF w = 0 THEN <<>> ELSE <<n % 256>> \o FromNat(n \div 256, w - 1)

\* A host-order value below 2^24: the only ones turned into a number.
IsSmall(v) == \A i \in 1..Len(v) : i > 3 => v[i] = 0

RECURSIVE ToNat(_)
ToNat(v) == IF v = <<>> THEN 0 ELSE Head(v) + 256 * ToNat(Tail(v))

\* Unsigned a < b, both of the same width.
RECURSIVE Lt(_, _)
Lt(a, b) ==
    IF a = <<>> THEN FALSE
    ELSE IF a[Len(a)] # b[Len(b)] THEN a[Len(a)] < b[Len(b)]
    ELSE Lt(Front(a), Front(b))

\* a - b modulo 2^(8 * width): unsigned subtraction as the machine does it.
RECURSIVE SubBorrow(_, _, _)
SubBorrow(a, b, borrow) ==
    IF a = <<>> THEN <<>>
    ELSE LET d == Head(a) - Head(b) - borrow
         IN  IF d < 0 THEN <<d + 256>> \o SubBorrow(Tail(a), Tail(b), 1)
             ELSE <<d>> \o SubBorrow(Tail(a), Tail(b), 0)

Sub(a, b) == SubBorrow(a, b, 0)

\* a + b modulo 2^(8 * width).
RECURSIVE AddCarry(_, _, _)
AddCarry(a, b, carry) ==
    IF a = <<>> THEN <<>>
    ELSE LET d == Head(a) + Head(b) + carry
         IN  <<d % 256>> \o AddCarry(Tail(a), Tail(b), d \div 256)

Add(a, b) == AddCarry(a, b, 0)

\* a * k modulo 2^(8 * width), k a small number (a sizeof).
RECURSIVE MulCarry(_, _, _)
MulCarry(a, k, carry) ==
    IF a = <<>> THEN <<>>
    ELSE LET d == Head(a) * k + carry
         IN  <<d % 256>> \o MulCarry(Tail(a), k, d \div 256)

Mul(a, k) == MulCarry(a, k, 0)

\* Integral conversion to a type of w bytes: zero extension or truncation.
Convert(v, w) == IF Len(v) >= w THEN SubSeq(v, 1, w) ELSE v \o Zeros(w - Len(v))

SizeT(v) == Convert(v, 8)

SizeOf(n) == FromNat(n, 8)

\* net::ntoh / net::hton on a little-endian host.
ntoh(v) == Reverse(v)

hton(v) == Reverse(v)

-----------------------------------------------------------------------------
(* Errors                                                                  *)

Err(type, msg, got, expected) ==
    [type |-> type, msg |-> msg, got |-> got, expected |-> expected]

NoErr == Err("none", <<>>, 0, <<>>)

bufsize_mismatch_exception(size, expected) ==
    Err("bufsize_mismatch_exception", <<"Buffer improperly sized to hold requested data">>,
        size, expected)

malformed_sstable_exception(msg) == Err("malformed_sstable_exception", msg, 0, <<>>)

system_error(code) == Err("system_error", <<code>>, 0, <<>>)

\* bufsize_mismatch_exception derives from malformed_sstable_exception.
IsMalformed(e) == e.type \in {"malformed_sstable_exception", "bufsize_mismatch_exception"}

-----------------------------------------------------------------------------
(* random_access_reader                                                    *)
(*                                                                         *)
(* data is what the underlying stream can deliver and pos the place of the *)
(* next byte.  When the data runs out the stream reports end of file,      *)
(* unless stall is set: then it hands back a short buffer without          *)
(* reporting eof.  short records whether any read came back short.         *)

Reader(data, stall) ==
    [data |-> data, pos |-> 0, eof |-> FALSE, stall |-> stall,
     short |-> FALSE, got |-> 0, want |-> <<>>]

Avail(rd) == Len(rd.data) - rd.pos

Enough(rd, n) == IsSmall(n) /\ ToNat(n) <= Avail(rd)

Taken(rd, n) == IF Enough(rd, n) THEN ToNat(n) ELSE Avail(rd)

Deliver(rd, k, under) ==
    [buf |-> SubSeq(rd.data, rd.pos + 1, rd.pos + k),
     rd  |-> [rd EXCEPT !.pos = rd.pos + k,
                        !.eof = rd.eof \/ (under /\ ~rd.stall),
                        !.short = rd.short \/ under]]

\* The first read that came back short is noted: what it got and wanted.
Noted(rd, n) ==
    IF Enough(rd, n) \/ rd.short THEN rd ELSE [rd EXCEPT !.got = Avail(rd), !.want = n]

\* read_exactly(n): n bytes, or what is left when fewer are.
read_exactly(rd, n) == Deliver(Noted(rd, n), Taken(rd, n), ~Enough(rd, n))

\* seek(pos): a fresh stream opened at pos (a place past the end holds nothing).
seek(rd, pos) ==
    [rd EXCEPT !.pos = IF IsSmall(pos) THEN Min(ToNat(pos), Len(rd.data)) ELSE Len(rd.data),
               !.eof = FALSE]

\* check_buf_size: the error it throws, or none.
check_buf_size(buf, expected) ==
    IF ~IsSmall(expected) \/ Len(buf) < ToNat(expected)
    THEN bufsize_mismatch_exception(Len(buf), expected)
    ELSE NoErr

-----------------------------------------------------------------------------
(* Parsers.  Each yields [err, val, rd]: the error thrown (or none), the   *)
(* object as the parser left it, and the reader afterwards.  An operator   *)
(* named x_then is the continuation the parser x attaches to a read or to  *)
(* the parse before it.                                                    *)

Res(err, val, rd) == [err |-> err, val |-> val, rd |-> rd]

Ok(r) == r.err = NoErr

read_integer(buf, w) == ntoh(SubSeq(buf, 1, w))

integer_then(r, w) ==
    IF check_buf_size(r.buf, SizeOf(w)) # NoErr
    THEN Res(check_buf_size(r.buf, SizeOf(w)), Zeros(w), r.rd)
    ELSE Res(NoErr, read_integer(r.buf, w), r.rd)

\* parse(in, T&) for an integral T of w bytes; enums, bool and double go
\* through the same read of their width.
parse_integer(rd, w) == integer_then(read_exactly(rd, SizeOf(w)), w)

sstring_then(r, len) ==
    IF check_buf_size(r.buf, SizeT(len)) # NoErr
    THEN Res(check_buf_size(r.buf, SizeT(len)), <<>>, r.rd)
    ELSE Res(NoErr, SubSeq(r.buf, 1, ToNat(len)), r.rd)

\* parse(in, len, sstring&)
parse_sstring(rd, len) == sstring_then(read_exactly(rd, SizeT(len)), len)

disk_string_then(l) ==
    IF ~Ok(l) THEN Res(l.err, <<>>, l.rd) ELSE parse_sstring(l.rd, l.val)

\* parse(in, disk_string<Size>&), Size of sw bytes
parse_disk_string(rd, sw) == disk_string_then(parse_integer(rd, sw))

\* How often a loop bounded by a count read from the file can run before a
\* read must come back short.
LoopCount(len, rd) == IF IsSmall(len) THEN ToNat(len) ELSE Len(rd.data) + 1

\* The members left as they lie in the buffer, ntoh not applied.
vector_integral_then_host_order(r, len, w) ==
    IF check_buf_size(r.buf, Mul(SizeT(len), w)) # NoErr
    THEN Res(check_buf_size(r.buf, Mul(SizeT(len), w)), <<>>, r.rd)
    ELSE Res(NoErr,
             [i \in 1..ToNat(len) |-> SubSeq(r.buf, (i - 1) * w + 1, i * w)],
             r.rd)

vector_integral_then(r, len, w) ==
    IF check_buf_size(r.buf, Mul(SizeT(len), w)) # NoErr
    THEN Res(check_buf_size(r.buf, Mul(SizeT(len), w)), <<>>, r.rd)
    ELSE Res(NoErr,
             [i \in 1..ToNat(len) |-> ntoh(SubSeq(r.buf, (i - 1) * w + 1, i * w))],
             r.rd)

\* parse(in, len, vector<Members>&), Members integral of w bytes: one read,
\* then the members converted in place.
parse_vector_integral(rd, len, w) ==
    vector_integral_then(read_exactly(rd, Mul(SizeT(len), w)), len, w)

disk_array_integral_then(l, w) ==
    IF ~Ok(l) THEN Res(l.err, <<>>, l.rd) ELSE parse_vector_integral(l.rd, l.val, w)

\* parse(in, disk_array<Size, Members>&), Members integral
parse_disk_array_integral(rd, sw, w) == disk_array_integral_then(parse_integer(rd, sw), w)

\* map.emplace(key, value): a key already there keeps its value.
emplace(map, key, value) ==
    IF key \in DOMAIN map THEN map ELSE map @@ (key :> value)

EmptyMap == [k \in {} |-> <<>>]

RECURSIVE parse_map_loop(_, _, _, _, _), map_key_then(_, _, _, _, _),
          map_value_then(_, _, _, _, _, _)

\* parse(in, len, unordered_map<Key, Value>&): the loop, with left pairs to go.
parse_map_loop(rd, left, kw, vw, map) ==
    IF left = 0 THEN Res(NoErr, map, rd)
    ELSE map_key_then(parse_integer(rd, kw), left, kw, vw, map)

map_key_then(k, left, kw, vw, map) ==
    IF ~Ok(k) THEN Res(k.err, map, k.rd)
    ELSE map_value_then(k.val, parse_integer(k.rd, vw), left, kw, vw, map)

map_value_then(key, v, left, kw, vw, map) ==
    IF ~Ok(v) THEN Res(v.err, map, v.rd)
    ELSE parse_map_loop(v.rd, left - 1, kw, vw, emplace(map, key, v.val))

parse_unordered_map(rd, len, kw, vw) ==
    parse_map_loop(rd, LoopCount(len, rd), kw, vw, EmptyMap)

disk_hash_then(w, kw, vw) ==
    IF ~Ok(w) THEN Res(w.err, EmptyMap, w.rd)
    ELSE parse_unordered_map(w.rd, w.val, kw, vw)

\* parse(in, disk_hash<Size, Key, Value>&)
parse_disk_hash(rd, sw, kw, vw) == disk_hash_then(parse_integer(rd, sw), kw, vw)

-----------------------------------------------------------------------------
(* Type-directed dispatch.  The overloads of parse are chosen by the type  *)
(* of the object; a type is described by its shape, a record by the field  *)
(* list its parser (or its describe_type) passes on, in that order.        *)

Integral(w) == [k |-> "integral", w |-> w]

DiskString(sw) == [k |-> "disk_string", sw |-> sw]

DiskArrayIntegral(sw, w) == [k |-> "disk_array_integral", sw |-> sw, w |-> w]

DiskArray(sw, elem) == [k |-> "disk_array", sw |-> sw, elem |-> elem]

DiskHash(sw, kw, vw) == [k |-> "disk_hash", sw |-> sw, kw |-> kw, vw |-> vw]

Record(fields) == [k |-> "record", fields |-> fields]

\* double travels as the 8 bytes of its bit pattern, bool as a uint8_t.
Double == Integral(8)

Bool == Integral(1)

EmptyRecord == [f \in {} |-> <<>>]

RECURSIVE parse(_, _), parse_fields(_, _, _), field_then(_, _, _),
          parse_vector(_, _, _, _), member_then(_, _, _, _), disk_array_then(_, _),
          members_then(_, _, _)

parse(rd, T) ==
    CASE T.k = "integral" -> parse_integer(rd, T.w)
      [] T.k = "disk_string" -> parse_disk_string(rd, T.sw)
      [] T.k = "disk_array_integral" -> parse_disk_array_integral(rd, T.sw, T.w)
      [] T.k = "disk_hash" -> parse_disk_hash(rd, T.sw, T.kw, T.vw)
      [] T.k = "disk_array" -> disk_array_then(parse_integer(rd, T.sw), T.elem)
      [] T.k = "record" -> parse_fields(rd, T.fields, EmptyRecord)

\* parse(in, disk_array<Size, Members>&), Members not integral
disk_array_then(l, elem) ==
    IF ~Ok(l) THEN Res(l.err, <<>>, l.rd)
    ELSE parse_vector(l.rd, LoopCount(l.val, l.rd), elem, <<>>)

\* parse(in, first, rest...): the fields one after the other, each written
\* into the object as it is parsed; an error leaves the later ones untouched.
parse_fields(rd, fields, obj) ==
    IF fields = <<>> THEN Res(NoErr, obj, rd)
    ELSE field_then(parse(rd, Head(fields)[2]), fields, obj)

field_then(f, fields, obj) ==
    IF ~Ok(f) THEN Res(f.err, (Head(fields)[1] :> f.val) @@ obj, f.rd)
    ELSE parse_fields(f.rd, Tail(fields), (Head(fields)[1] :> f.val) @@ obj)

\* parse(in, len, vector<Members>&), Members not integral: member by member.
parse_vector(rd, left, elem, arr) ==
    IF left = 0 THEN Res(NoErr, arr, rd)
    ELSE IF left = 1 THEN member_then(parse(rd, elem), left, elem, arr)
    ELSE members_then(parse_vector(rd, left \div 2, elem, arr), left - left \div 2, elem)

\* The members after those already parsed, unless one of these failed.
members_then(h, left, elem) == IF ~Ok(h) THEN h ELSE parse_vector(h.rd, left, elem, h.val)

member_then(m, left, elem, arr) ==
    IF ~Ok(m) THEN Res(m.err, arr, m.rd)
    ELSE parse_vector(m.rd, left - 1, elem, Append(arr, m.val))

\* The records of types.hh, by their field lists.
option == Record(<<<<"key", DiskString(2)>>, <<"value", DiskString(2)>>>>)

filter == Record(<<<<"hashes", Integral(4)>>, <<"buckets", DiskArrayIntegral(4, 8)>>>>)

index_entry ==
    Record(<<<<"key", DiskString(2)>>, <<"position", Integral(8)>>,
             <<"promoted_index", DiskString(4)>>>>)

replay_position == Record(<<<<"segment", Integral(8)>>, <<"position", Integral(4)>>>>)

eh_elem == Record(<<<<"offset", Integral(8)>>, <<"bucket", Integral(8)>>>>)

estimated_histogram == Record(<<<<"elements", DiskArray(4, eh_elem)>>>>)

streaming_histogram ==
    Record(<<<<"max_bin_size", Integral(4)>>, <<"hash", DiskHash(4, 8, 8)>>>>)

validation_metadata ==
    Record(<<<<"partitioner", DiskString(2)>>, <<"filter_chance", Double>>>>)

compaction_metadata ==
    Record(<<<<"ancestors", DiskArrayIntegral(4, 4)>>,
             <<"cardinality", DiskArrayIntegral(4, 1)>>>>)

stats_metadata ==
    Record(<<<<"estimated_row_size", estimated_histogram>>,
             <<"estimated_column_count", estimated_histogram>>,
             <<"position", replay_position>>,
             <<"min_timestamp", Integral(8)>>,
             <<"max_timestamp", Integral(8)>>,
             <<"max_local_deletion_time", Integral(4)>>,
             <<"compression_ratio", Double>>,
             <<"estimated_tombstone_drop_time", streaming_histogram>>,
             <<"sstable_level", Integral(4)>>,
             <<"repaired_at", Integral(8)>>,
             <<"min_column_names", DiskArray(4, DiskString(2))>>,
             <<"max_column_names", DiskArray(4, DiskString(2))>>,
             <<"has_legacy_counter_shards", Bool>>>>)

deletion_time ==
    Record(<<<<"local_deletion_time", Integral(4)>>, <<"marked_for_delete_at", Integral(8)>>>>)

\* The compression record of compress.hh, parsed through its describe_type.
compression ==
    Record(<<<<"name", DiskString(2)>>, <<"options", DiskArray(4, option)>>,
             <<"chunk_len", Integral(4)>>, <<"data_len", Integral(8)>>,
             <<"offsets", DiskArrayIntegral(4, 8)>>>>)

-----------------------------------------------------------------------------
(* The statistics file                                                     *)

Validation == 0

Compaction == 1

Stats == 2

metadata_type(n) == FromNat(n, 4)

EmptyStatistics == [hash |-> EmptyMap, contents |-> EmptyRecord]

metadata_then(b, s, tag) ==
    Res(b.err, [s EXCEPT !.contents = (tag :> b.val) @@ s.contents], b.rd)

\* parse<Child>(in, unique_ptr<metadata>&): s.contents[tag] is created, reset
\* to a new Child, and the Child parsed in place.
parse_metadata(s, rd, tag, Child) == metadata_then(parse(rd, Child), s, tag)

\* The switch with its default case throwing instead of logging.
statistics_switch_default_throws(s, in, tag) ==
    CASE tag = metadata_type(Validation) -> parse_metadata(s, in, tag, validation_metadata)
      [] tag = metadata_type(Compaction) -> parse_metadata(s, in, tag, compaction_metadata)
      [] tag = metadata_type(Stats) -> parse_metadata(s, in, tag, stats_metadata)
      [] OTHER -> Res(malformed_sstable_exception(<<"Invalid metadata type">>), s, in)

\* The switch on val.first.
statistics_switch(s, in, tag) ==
    CASE tag = metadata_type(Validation) -> parse_metadata(s, in, tag, validation_metadata)
      [] tag = metadata_type(Compaction) -> parse_metadata(s, in, tag, compaction_metadata)
      [] tag = metadata_type(Stats) -> parse_metadata(s, in, tag, stats_metadata)
      [] OTHER -> Res(NoErr, s, in)

\* The body parsed where the stream stands, without in.seek(val.second).
parse_statistics_entry_in_place(s, rd, tag) == statistics_switch(s, rd, tag)

\* The body of the do_for_each over s.hash.map, for the entry of tag.
parse_statistics_entry(s, rd, tag) ==
    statistics_switch(s, seek(rd, SizeT(s.hash[tag])), tag)

statistics_hash_then(h) == Res(h.err, [EmptyStatistics EXCEPT !.hash = h.val], h.rd)

\* The map of tags to offsets that opens the file.
parse_statistics_hash(rd) == statistics_hash_then(parse(rd, DiskHash(4, 4, 4)))

RECURSIVE parse_statistics_entries(_, _, _), statistics_entry_then(_, _)

\* The entries visited in the given order (the unordered_map's own).
parse_statistics_entries(s, rd, order) ==
    IF order = <<>> THEN Res(NoErr, s, rd)
    ELSE statistics_entry_then(parse_statistics_entry(s, rd, Head(order)), order)

statistics_entry_then(e, order) ==
    IF ~Ok(e) THEN e ELSE parse_statistics_entries(e.val, e.rd, Tail(order))

\* The orders in which a set can be gone through.
Orders(S) == {o \in [1..Cardinality(S) -> S] : \A i, j \in DOMAIN o : i # j => o[i] # o[j]}

-----------------------------------------------------------------------------
(* The summary file.  A run of the parser is a record p with the summary s *)
(* being filled, the reader rd, the error err thrown (or none), the index  *)
(* idx of the entry iteration and pc, the link of the chain to run next.   *)

SizeofSummaryHeader == 24

SizeofPosType == 4

summary_header ==
    Record(<<<<"min_index_interval", Integral(4)>>, <<"size", Integral(4)>>,
             <<"memory_size", Integral(8)>>, <<"sampling_level", Integral(4)>>,
             <<"size_at_full_sampling", Integral(4)>>>>)

summary_keys_list == Record(<<<<"first_key", DiskString(4)>>, <<"last_key", DiskString(4)>>>>)

EmptySummaryEntry == [key |-> <<>>, keysize |-> Zeros(4), position |-> Zeros(8)]

EmptySummary ==
    [header |-> EmptyRecord, positions |-> <<>>, entries |-> <<>>,
     first_key |-> <<>>, last_key |-> <<>>]

SummaryRun(rd) == [pc |-> "header", s |-> EmptySummary, rd |-> rd, err |-> NoErr, idx |-> 0]

SummaryFailed(p, err, rd) == [p EXCEPT !.pc = "failed", !.err = err, !.rd = rd]

summary_header_then(p, h) ==
    IF ~Ok(h) THEN SummaryFailed([p EXCEPT !.s.header = h.val], h.err, h.rd)
    ELSE [p EXCEPT !.s.header = h.val, !.rd = h.rd, !.pc = "positions"]

\* parse(in, s.header.min_index_interval, ..., s.header.size_at_full_sampling)
parse_summary_header(p) == summary_header_then(p, parse(p.rd, summary_header))

\* The positions of the buffer alone, header.memory_size not pushed.
positions_of_without_successor(buf, size, memory_size) ==
    [i \in 1..ToNat(size) |-> SubSeq(buf, (i - 1) * SizeofPosType + 1, i * SizeofPosType)]

\* The positions as they lie in the buffer, in host order, and after them
\* header.memory_size pushed into the vector of pos_type.
positions_of(buf, size, memory_size) ==
    Append([i \in 1..ToNat(size) |->
               SubSeq(buf, (i - 1) * SizeofPosType + 1, i * SizeofPosType)],
           Convert(memory_size, SizeofPosType))

summary_positions_then(p, r, len) ==
    IF check_buf_size(r.buf, len) # NoErr
    THEN SummaryFailed(p, check_buf_size(r.buf, len), r.rd)
    ELSE [p EXCEPT !.s.entries = [i \in 1..ToNat(p.s.header.size) |-> EmptySummaryEntry],
                   !.s.positions = positions_of(r.buf, p.s.header.size, p.s.header.memory_size),
                   !.rd = r.rd, !.pc = "keys"]

\* in.read_exactly(s.header.size * sizeof(pos_type)) and its continuation
read_summary_positions(p) ==
    summary_positions_then(p, read_exactly(p.rd, Mul(SizeT(p.s.header.size), SizeofPosType)),
                           Mul(SizeT(p.s.header.size), SizeofPosType))

summary_keys_then(p, k) ==
    IF ~Ok(k) THEN SummaryFailed(p, k.err, k.rd)
    ELSE [p EXCEPT !.s.first_key = k.val.first_key, !.s.last_key = k.val.last_key,
                   !.rd = k.rd, !.pc = "begin"]

\* in.seek(sizeof(summary::header) + s.header.memory_size); parse(in, s.first_key, s.last_key)
parse_summary_keys(p) ==
    summary_keys_then(p, parse(seek(p.rd, Add(SizeOf(SizeofSummaryHeader), p.s.header.memory_size)),
                               summary_keys_list))

\* in.seek(s.positions[0] + sizeof(summary::header)), the assert, and the
\* start of the do_for_each over the entries.
begin_summary_entries(p) ==
    [p EXCEPT !.rd = seek(p.rd, Add(SizeT(p.s.positions[1]), SizeOf(SizeofSummaryHeader))),
              !.idx = 0,
              !.pc = IF Len(p.s.positions) # Len(p.s.entries) + 1 THEN "aborted"
                     ELSE IF Len(p.s.entries) = 0 THEN "drop"
                     ELSE "entries"]

\* What a build can do once keysize has wrapped around: bytes(buf.get(),
\* keysize) copies about 2^32 bytes out of a buffer of entrysize bytes.
UBOutcomes == {"crash", "bad_alloc", "garbage"}

GarbagePosition == <<222, 222, 222, 222, 222, 222, 222, 222>>

StoreEntry(p, entry) ==
    [p EXCEPT !.s.entries[p.idx + 1] = entry,
              !.idx = p.idx + 1,
              !.pc = IF p.idx + 1 = Len(p.s.entries) THEN "drop" ELSE "entries"]

summary_entry_overrun(p, r, keysize, ub) ==
    CASE ub = "crash" -> [p EXCEPT !.pc = "crashed", !.rd = r.rd]
      [] ub = "bad_alloc" -> SummaryFailed(p, Err("bad_alloc", <<>>, 0, <<>>), r.rd)
      [] ub = "garbage" ->
            StoreEntry([p EXCEPT !.rd = r.rd],
                       [key |-> r.buf, keysize |-> keysize, position |-> GarbagePosition])

\* The entry with its position taken as the bytes lie, ntoh not applied.
summary_entry_of_host_order(buf, keysize) ==
    [key |-> SubSeq(buf, 1, ToNat(keysize)),
     keysize |-> keysize,
     position |-> SubSeq(buf, ToNat(keysize) + 1, Len(buf))]

\* entry.key = bytes(buf.get(), keysize); buf.trim_front(keysize);
\* read_integer(buf, entry.position)
summary_entry_of(buf, keysize) ==
    [key |-> SubSeq(buf, 1, ToNat(keysize)),
     keysize |-> keysize,
     position |-> read_integer(SubSeq(buf, ToNat(keysize) + 1, Len(buf)), 8)]

summary_entry_then(p, r, entrysize, ub) ==
    IF check_buf_size(r.buf, SizeT(entrysize)) # NoErr
    THEN SummaryFailed(p, check_buf_size(r.buf, SizeT(entrysize)), r.rd)
    ELSE IF Lt(entrysize, FromNat(8, SizeofPosType))
    THEN summary_entry_overrun(p, r, Sub(entrysize, FromNat(8, SizeofPosType)), ub)
    ELSE StoreEntry([p EXCEPT !.rd = r.rd],
                    summary_entry_of(r.buf, Sub(entrysize, FromNat(8, SizeofPosType))))

summary_entry_read(p, entrysize, ub) ==
    summary_entry_then(p, read_exactly(p.rd, SizeT(entrysize)), entrysize, ub)

\* One round of the do_for_each: pos = positions[idx++], next = positions[idx],
\* entrysize = next - pos, read_exactly(entrysize) and its continuation.
parse_summary_entry(p, ub) ==
    summary_entry_read(p, Sub(p.s.positions[p.idx + 2], p.s.positions[p.idx + 1]), ub)

\* The positions are swapped for an empty vector.
drop_summary_positions(p) == [p EXCEPT !.s.positions = <<>>, !.pc = "done"]

SummaryStep(p, ub) ==
    CASE p.pc = "header" -> parse_summary_header(p)
      [] p.pc = "positions" -> read_summary_positions(p)
      [] p.pc = "keys" -> parse_summary_keys(p)
      [] p.pc = "begin" -> begin_summary_entries(p)
      [] p.pc = "entries" -> parse_summary_entry(p, ub)
      [] p.pc = "drop" -> drop_summary_positions(p)

SummaryRunning(p) == p.pc \in {"header", "positions", "keys", "begin", "entries", "drop"}

\* parse(in, summary&): the chain run to its end.
RECURSIVE parse_summary(_, _)
parse_summary(p, ub) == IF SummaryRunning(p) THEN parse_summary(SummaryStep(p, ub), ub) ELSE p

-----------------------------------------------------------------------------
(* read_indexes.  A call is a record r with the count, the indexes vector, *)
(* the stream, the quantity asked for, the error thrown (or none) and pc.  *)

MaxCount == <<255, 255, 255, 255, 255, 255, 255, 255>>

\* make_lw_shared<reader>(_index_file, quantity); r->stream.seek(position)
IndexReader(file, position, quantity) ==
    [pc |-> "loop", count |-> Zeros(8), indexes |-> <<>>,
     stream |-> seek(file, position), quantity |-> quantity, err |-> NoErr]

\* The loop ended only on count == quantity.
index_end_on_equal(r) == r.count = r.quantity

\* auto end = [r, quantity] { return r->count >= quantity; }
index_end(r) == ~Lt(r.count, r.quantity)

\* catch (bufsize_mismatch_exception &e): the rethrow reaches eof alike.
index_bufsize_mismatch_rethrows(r, f) ==
    [r EXCEPT !.indexes = Front(@), !.pc = "failed", !.err = f.err]

\* catch (bufsize_mismatch_exception &e)
index_bufsize_mismatch(r, f) ==
    IF f.rd.eof
    THEN [r EXCEPT !.indexes = Front(@), !.count = MaxCount]
    ELSE [r EXCEPT !.indexes = Front(@), !.pc = "failed", !.err = f.err]

\* The then_wrapped continuation of one parse; the element emplaced at the
\* back of the vector holds what the parse has assigned of it.
index_then(r, f) ==
    IF Ok(f) THEN [r EXCEPT !.count = Add(@, FromNat(1, 8))]
    ELSE IF f.err.type = "bufsize_mismatch_exception" THEN index_bufsize_mismatch(r, f)
    ELSE [r EXCEPT !.pc = "failed", !.err = f.err]

index_parsed(r, f) ==
    index_then([r EXCEPT !.indexes = Append(@, f.val), !.stream = f.rd], f)

\* One round of the do_until.
index_round(r) == index_parsed(r, parse(r.stream, index_entry))

\* .then([r] { return make_ready_future<index_list>(std::move(r->indexes)); })
index_return(r) == [r EXCEPT !.pc = "done"]

-----------------------------------------------------------------------------
(* The table.  File contents and the outcome of opening or reading a file  *)
(* come from the environment: the status of a file is "ok" or the code of  *)
(* the std::system_error that the open (or, for EIO, the read) throws.     *)

_component_map ==
    [Index |-> "Index.db", CompressionInfo |-> "CompressionInfo.db", Data |-> "Data.db",
     TOC |-> "TOC.txt", Summary |-> "Summary.db", Digest |-> "Digest.sha1",
     CRC |-> "CRC.db", Filter |-> "Filter.db", Statistics |-> "Statistics.db"]

component_type == DOMAIN _component_map

\* reverse_map(value, map) finds no key: std::out_of_range.
reverse_map_throws(c) == \A k \in component_type : <<_component_map[k]>> # c

reverse_map(c) == CHOOSE k \in component_type : <<_component_map[k]>> = c

\* _dir + "/" + version + "-" + generation + "-" + format + "-" + component
filename(f) == <<"dir", "/", "la", "-", "1", "-", "big", "-", _component_map[f]>>

has_component(t, f) == f \in t._components

open_file_dma(status) == IF status = "ok" THEN NoErr ELSE system_error(status)

Digits == <<"0", "1", "2", "3", "4", "5", "6", "7", "8", "9">>

RECURSIVE to_sstring(_)
to_sstring(n) ==
    IF n < 10 THEN <<Digits[n + 1]>> ELSE Append(to_sstring(n \div 10), Digits[(n % 10) + 1])

\* A TOC file is a sequence of pieces of text, "\n" one of them.
RECURSIVE ByteSize(_)
ByteSize(buf) ==
    IF buf = <<>> THEN 0
    ELSE IF Len(buf) = 1 THEN Len(buf[1])
    ELSE ByteSize(SubSeq(buf, 1, Len(buf) \div 2))
           + ByteSize(SubSeq(buf, Len(buf) \div 2 + 1, Len(buf)))

TocBufferSize == 4096

\* f.dma_read(0, buf, 4096): the number of bytes read.
dma_read(file) == Min(ByteSize(file), TocBufferSize)

\* The pieces of two neighbouring parts: the last of one and the first of
\* the other are one piece.
split_join(l, r) == SubSeq(l, 1, Len(l) - 1) \o <<l[Len(l)] \o r[1]>> \o Tail(r)

\* boost::split(comps, buf, boost::is_any_of("\n")), line being the text
\* before buf since the last "\n".
RECURSIVE split(_, _)
split(buf, line) ==
    IF buf = <<>> THEN <<line>>
    ELSE IF Len(buf) = 1
    THEN IF buf[1] = "\n" THEN <<line, <<>>>> ELSE <<Append(line, buf[1])>>
    ELSE split_join(split(SubSeq(buf, 1, Len(buf) \div 2), line),
                    split(SubSeq(buf, Len(buf) \div 2 + 1, Len(buf)), <<>>))

\* The line's component put in place of the set instead of into it.
toc_line_replaces(c, components) ==
    IF c = <<>> THEN [err |-> NoErr, components |-> components]
    ELSE IF reverse_map_throws(c)
    THEN [err |-> malformed_sstable_exception(<<"Unrecognized TOC component: ">> \o c),
          components |-> components]
    ELSE [err |-> NoErr, components |-> {reverse_map(c)}]

\* The body of for (auto& c: comps): an empty line passed over, a known one
\* inserted, any other thrown as malformed.
toc_line(c, components) ==
    IF c = <<>> THEN [err |-> NoErr, components |-> components]
    ELSE IF reverse_map_throws(c)
    THEN [err |-> malformed_sstable_exception(<<"Unrecognized TOC component: ">> \o c),
          components |-> components]
    ELSE [err |-> NoErr, components |-> components \cup {reverse_map(c)}]

\* for (auto& c: comps): the components inserted until a line is not known.
RECURSIVE toc_insert(_, _), toc_insert_rest(_, _)
toc_insert(comps, components) ==
    IF comps = <<>> THEN [err |-> NoErr, components |-> components]
    ELSE IF Len(comps) = 1 THEN toc_line(comps[1], components)
    ELSE toc_insert_rest(toc_insert(SubSeq(comps, 1, Len(comps) \div 2), components),
                         SubSeq(comps, Len(comps) \div 2 + 1, Len(comps)))

\* The lines after those gone through, unless one of these was thrown.
toc_insert_rest(r, rest) == IF r.err # NoErr THEN r ELSE toc_insert(rest, r.components)

toc_checked(r) ==
    IF r.err = NoErr /\ r.components = {}
    THEN [err |-> malformed_sstable_exception(<<"Empty TOC">>), components |-> r.components]
    ELSE r

\* The continuation accepting a read that filled the buffer exactly.
toc_read_then_above_page(size, file, components) ==
    IF size > TocBufferSize
    THEN [err |-> malformed_sstable_exception(<<"SSTable too big: ">> \o to_sstring(size)
                                                \o <<" bytes.">>),
          components |-> components]
    ELSE toc_checked(toc_insert(split(file, <<>>), components))

\* The continuation of dma_read in read_toc.
toc_read_then(size, file, components) ==
    IF size >= TocBufferSize
    THEN [err |-> malformed_sstable_exception(<<"SSTable too big: ">> \o to_sstring(size)
                                                \o <<" bytes.">>),
          components |-> components]
    ELSE toc_checked(toc_insert(split(file, <<>>), components))

\* then_wrapped of read_toc: what the future holds after it.
read_toc_wrapped(e, file_path) ==
    IF e.type = "system_error"
    THEN IF e.msg = <<"ENOENT">>
         THEN malformed_sstable_exception(file_path \o <<": file not found">>)
         ELSE NoErr
    ELSE e

NoReader == Reader(<<>>, FALSE)

NoFile == "none"

EmptyFilter == EmptyRecord

EmptyCompression == EmptyRecord

\* The table as constructed, and with it the state of a load: err is what
\* the chain holds, started the steps begun, raised what each step threw
\* before its own handler, rd the reader of the last file parsed.
NewSSTable ==
    [_components |-> {}, _statistics |-> EmptyStatistics, _compression |-> EmptyCompression,
     _filter |-> EmptyFilter, _summary |-> EmptySummary,
     _index_file |-> NoFile, _data_file |-> NoFile, _data_file_size |-> Zeros(8),
     err |-> NoErr, started |-> <<>>, raised |-> <<>>, rd |-> NoReader,
     opens |-> [index |-> "idle", data |-> "idle"], updates |-> 0]

toc_then(t, r) ==
    [t EXCEPT !._components = r.components,
              !.started = Append(@, "TOC"),
              !.raised = Append(@, r.err),
              !.err = read_toc_wrapped(r.err, filename("TOC"))]

read_toc(t, status, file) ==
    IF status # "ok"
    THEN toc_then(t, [err |-> system_error(status), components |-> t._components])
    ELSE toc_then(t, toc_read_then(dma_read(file), file, t._components))

\* then_wrapped of read_simple, catching whatever is thrown.
read_simple_wrapped_catches_all(e, file_path) ==
    IF e.type = "system_error" /\ e.msg = <<"ENOENT">>
    THEN malformed_sstable_exception(file_path \o <<": file not found">>)
    ELSE NoErr

\* then_wrapped of read_simple: what the future holds after it.
read_simple_wrapped(e, file_path) ==
    IF e.type = "system_error"
    THEN IF e.msg = <<"ENOENT">>
         THEN malformed_sstable_exception(file_path \o <<": file not found">>)
         ELSE NoErr
    ELSE e

\* The member of the table that read_simple<T, Type, Comptr> parses into.
Comptr(Type) ==
    CASE Type = "Statistics" -> "_statistics"
      [] Type = "CompressionInfo" -> "_compression"
      [] Type = "Filter" -> "_filter"
      [] Type = "Summary" -> "_summary"

read_simple_then(t, Type, r) ==
    [t EXCEPT ![Comptr(Type)] = r.val,
              !.started = Append(@, Type),
              !.raised = Append(@, r.err),
              !.rd = r.rd,
              !.err = read_simple_wrapped(r.err, filename(Type))]

\* read_simple<T, Type, Comptr>(), r being what parse(*r, *this.*Comptr)
\* does on the file once it is open.
read_simple(t, Type, status, r) ==
    IF status # "ok"
    THEN read_simple_then(t, Type, Res(system_error(status), t[Comptr(Type)], NoReader))
    ELSE read_simple_then(t, Type, r)

statistics_parsed_hash_then(h, pick) ==
    IF ~Ok(h) THEN h
    ELSE parse_statistics_entries(h.val, h.rd, SelectSeq(pick, LAMBDA tag : tag \in DOMAIN h.val.hash))

\* parse(in, statistics&), the map gone through in the order of pick.
parse_statistics(rd, pick) == statistics_parsed_hash_then(parse_statistics_hash(rd), pick)

read_statistics(t, status, file, pick) ==
    read_simple(t, "Statistics", status, parse_statistics(Reader(file, FALSE), pick))

read_compression(t, status, file) ==
    IF ~has_component(t, "CompressionInfo") THEN t
    ELSE read_simple(t, "CompressionInfo", status, parse(Reader(file, FALSE), compression))

read_filter(t, status, file) ==
    IF ~has_component(t, "Filter") THEN t
    ELSE read_simple(t, "Filter", status, parse(Reader(file, FALSE), filter))

summary_parsed(p) == Res(p.err, p.s, p.rd)

read_summary(t, status, file, ub) ==
    read_simple(t, "Summary", status,
                summary_parsed(parse_summary(SummaryRun(Reader(file, FALSE)), ub)))

\* Whether the summary parse, run on the file, brings the process down.
summary_crashes(status, file, ub) ==
    status = "ok" /\ parse_summary(SummaryRun(Reader(file, FALSE)), ub).pc = "crashed"

\* when_all(open_file_dma(Index), open_file_dma(Data)): both opens issued.
open_data(t) ==
    [t EXCEPT !.started = Append(@, "Data"), !.opens = [index |-> "pending", data |-> "pending"]]

\* The continuation of when_all: get<0>(files).get() and get<1>(files).get()
\* rethrow what an open threw; _data_file->size() gives the size.
open_data_then(t, size) ==
    IF t.opens.index # "ok"
    THEN [t EXCEPT !.raised = Append(@, system_error(t.opens.index)),
                   !.err = system_error(t.opens.index)]
    ELSE IF t.opens.data # "ok"
    THEN [t EXCEPT !._index_file = "Index",
                   !.raised = Append(@, system_error(t.opens.data)),
                   !.err = system_error(t.opens.data)]
    ELSE [t EXCEPT !._index_file = "Index", !._data_file = "Data",
                   !._data_file_size = size,
                   !.raised = Append(@, NoErr)]

\* _compression.update(_data_file_size)
compression_update(c, size) == ("data_file_size" :> size) @@ c

\* The last continuation of load.
load_finish(t) ==
    IF has_component(t, "CompressionInfo")
    THEN [t EXCEPT !._compression = compression_update(@, t._data_file_size),
                   !.updates = @ + 1]
    ELSE t

\* .then of the chain in load: the next link runs when the future holds no
\* exception.
load_then(t, next) == [t EXCEPT !.pc = IF t.err = NoErr THEN next ELSE "failed"]

-----------------------------------------------------------------------------
(* Writers of the scalars and strings, used to lay out the input files     *)

\* write(out, T i), T integral: hton, then the bytes as they lie in memory.
write_integer(v) == hton(v)

BE(n, w) == write_integer(FromNat(n, w))

RECURSIVE Concat(_)
Concat(ss) == IF ss = <<>> THEN <<>> ELSE Head(ss) \o Concat(Tail(ss))

SeqsUpTo(S, n) == UNION {[1..k -> S] : k \in 0..n}

Off == [pc |-> "off"]

-----------------------------------------------------------------------------
(* output_stream<char> and the overloads of write.  A stream is the bytes  *)
(* written to it so far; the file under it may refuse a write, a flush or  *)
(* a close.  Each writer yields [err, out].                                *)

OutputStream(refuses) == [data |-> <<>>, refuses |-> refuses, log |-> <<>>]

Wrote(err, out) == [err |-> err, out |-> out]

\* out.write(p, n)
out_write(out, bytes) ==
    IF "write" \in out.refuses
    THEN Wrote(system_error("EIO"), [out EXCEPT !.log = Append(@, "write")])
    ELSE Wrote(NoErr, [out EXCEPT !.data = @ \o bytes, !.log = Append(@, "write")])

overflow_error == Err("overflow_error", <<"assigning U to T would cause an overflow">>, 0, <<>>)

\* std::numeric_limits<T>::max() for an unsigned T of w bytes
numeric_limits_max(w) == [i \in 1..w |-> 255]

\* check_truncate_and_assign, the maximum itself let through.
check_truncate_and_assign_above_max(w, from) ==
    IF Lt(Convert(numeric_limits_max(w), Len(from)), from)
    THEN [err |-> overflow_error, to |-> Zeros(w)]
    ELSE [err |-> NoErr, to |-> Convert(from, w)]

\* check_truncate_and_assign(T& to, const U from), T of w bytes: the error
\* thrown (or none) and what is assigned.
check_truncate_and_assign(w, from) ==
    IF ~Lt(from, Convert(numeric_limits_max(w), Len(from)))
    THEN [err |-> overflow_error, to |-> Zeros(w)]
    ELSE [err |-> NoErr, to |-> Convert(from, w)]

\* s.value.size(), arr.elements.size(): a size_t
container_size(s) == FromNat(Len(s), 8)

\* The integer written as it lies in memory, without hton.
write_integral_host_order(out, i) == out_write(out, i)

\* write(out, T i), T integral (an enum by its underlying type, bool as a
\* uint8_t, double by its 8 bytes)
write_integral(out, i) == out_write(out, write_integer(i))

\* write(out, sstring&)
write_sstring(out, s) == out_write(out, s)

sstring_after(r, s) == IF r.err # NoErr THEN r ELSE write_sstring(r.out, s)

disk_string_assigned(out, s, len) ==
    IF len.err # NoErr THEN Wrote(len.err, out)
    ELSE sstring_after(write_integral(out, len.to), s)

\* write(out, disk_string<Size>&), Size of sw bytes
write_disk_string(out, s, sw) ==
    disk_string_assigned(out, s, check_truncate_and_assign(sw, container_size(s)))

\* write(out, vector<Members>&), Members integral: the members turned to
\* big-endian in a copy, the copy written at once.
write_vector_integral(out, arr) ==
    out_write(out, [j \in 1..(Len(arr) * Len(Head(arr \o <<<<>>>>))) |->
                       hton(arr[((j - 1) \div Len(arr[1])) + 1])[((j - 1) % Len(arr[1])) + 1]])

vector_integral_after(r, arr) == IF r.err # NoErr THEN r ELSE write_vector_integral(r.out, arr)

disk_array_integral_assigned(out, arr, len) ==
    IF len.err # NoErr THEN Wrote(len.err, out)
    ELSE vector_integral_after(write_integral(out, len.to), arr)

\* write(out, disk_array<Size, Members>&), Members integral
write_disk_array_integral(out, arr, sw) ==
    disk_array_integral_assigned(out, arr, check_truncate_and_assign(sw, container_size(arr)))

RECURSIVE write(_, _, _), write_fields(_, _, _), field_written(_, _, _),
          write_vector(_, _, _), member_written(_, _, _),
          disk_array_assigned(_, _, _, _), vector_after(_, _, _)

\* The shapes write has an overload for: none takes a disk_hash or an
\* unordered_map, and disk_hash has no describe_type for the generic one.
write_overloads == {"integral", "disk_string", "disk_array_integral", "disk_array", "record"}

\* The overloads of write, chosen by the type as those of parse are.
write(out, v, T) ==
    CASE T.k = "integral" -> write_integral(out, v)
      [] T.k = "disk_string" -> write_disk_string(out, v, T.sw)
      [] T.k = "disk_array_integral" -> write_disk_array_integral(out, v, T.sw)
      [] T.k = "disk_array" ->
            disk_array_assigned(out, v, T.elem, check_truncate_and_assign(T.sw, container_size(v)))
      [] T.k = "record" -> write_fields(out, v, T.fields)

\* write(out, disk_array<Size, Members>&), Members not integral
disk_array_assigned(out, arr, elem, len) ==
    IF len.err # NoErr THEN Wrote(len.err, out)
    ELSE vector_after(write_integral(out, len.to), arr, elem)

vector_after(r, arr, elem) == IF r.err # NoErr THEN r ELSE write_vector(r.out, arr, elem)

\* write(out, vector<Members>&), Members not integral: member by member.
write_vector(out, arr, elem) ==
    IF arr = <<>> THEN Wrote(NoErr, out)
    ELSE IF Len(arr) = 1 THEN write(out, arr[1], elem)
    ELSE member_written(write_vector(out, SubSeq(arr, 1, Len(arr) \div 2), elem),
                        SubSeq(arr, Len(arr) \div 2 + 1, Len(arr)), elem)

\* The members after those already written, unless one of these failed.
member_written(r, rest, elem) == IF r.err # NoErr THEN r ELSE write_vector(r.out, rest, elem)

\* write(out, first, rest...): the fields of the list one after the other.
write_fields(out, obj, fields) ==
    IF fields = <<>> THEN Wrote(NoErr, out)
    ELSE field_written(write(out, obj[Head(fields)[1]], Head(fields)[2]), obj, Tail(fields))

\* The continuation that ends after the first field.
field_written_drops_rest(r, obj, rest) == r

\* The fields after the one written, unless that failed.
field_written(r, obj, rest) == IF r.err # NoErr THEN r ELSE write_fields(r.out, obj, rest)

-----------------------------------------------------------------------------
(* sstable::read_summary_entry                                             *)

out_of_range(msg) == Err("out_of_range", msg, 0, <<>>)

\* read_summary_entry accepting the index one past the last entry, where it
\* finds an entry never parsed.
read_summary_entry_past_end(s, i) ==
    IF Lt(container_size(s.entries), i)
    THEN [err |-> out_of_range(<<"Invalid Summary index: ">> \o to_sstring(ToNat(i))),
          val |-> EmptySummaryEntry, s |-> s]
    ELSE [err |-> NoErr,
          val |-> IF ToNat(i) < Len(s.entries) THEN s.entries[ToNat(i) + 1]
                  ELSE EmptySummaryEntry,
          s |-> s]

\* read_summary_entry(i): the entry, the summary being s.
read_summary_entry(s, i) ==
    IF ~Lt(i, container_size(s.entries))
    THEN [err |-> out_of_range(<<"Invalid Summary index: ">> \o to_sstring(ToNat(i))),
          val |-> EmptySummaryEntry, s |-> s]
    ELSE [err |-> NoErr, val |-> s.entries[ToNat(i) + 1], s |-> s]

-----------------------------------------------------------------------------
(* SpecMap: the disk_hash parser run on streams of pairs                   *)

MaxPairs == 3

MapKeys == {0, 1}

MapVals == {5, 6}

\* The two instances of disk_hash in types.hh: (key width, value width).
MapShapes == {<<4, 4>>, <<8, 8>>}

MapStream(shape, declared, pairs) ==
    BE(declared, 4)
        \o Concat([i \in 1..Len(pairs) |->
                      BE(pairs[i][1], shape[1]) \o BE(pairs[i][2], shape[2])])

MapInit ==
    /\ mp \in {[pc |-> "start", shape |-> shape, declared |-> declared, pairs |-> pairs,
                 res |-> Res(NoErr, EmptyMap, Reader(MapStream(shape, declared, pairs), FALSE))] :
                 shape \in MapShapes, declared \in 0..MaxPairs,
                 pairs \in SeqsUpTo(MapKeys \X MapVals, MaxPairs)}
    /\ sst = Off /\ stt = Off /\ sm = Off /\ ix = Off
    /\ wr = Off /\ sto = Off /\ dr = Off /\ toc = Off

ParseMap ==
    /\ mp.pc = "start"
    /\ mp' = [mp EXCEPT !.pc = "done",
                        !.res = parse_disk_hash(mp.res.rd, 4, mp.shape[1], mp.shape[2])]
    /\ UNCHANGED <<sst, stt, sm, ix, wr, sto, dr, toc>>

MapNext == ParseMap

SpecMap == MapInit /\ [][MapNext]_vars

\* The last pair among the first n whose key is k.
LastWith(pairs, n, k) ==
    CHOOSE i \in 1..n : pairs[i][1] = k /\ \A j \in (i + 1)..n : pairs[j][1] # k

FirstWith(pairs, n, k) ==
    CHOOSE i \in 1..n : pairs[i][1] = k /\ \A j \in 1..(i - 1) : pairs[j][1] # k

MapParsed == mp.pc = "done" /\ Ok(mp.res)

MapConsumedDeclared ==
    mp.res.rd.pos = 4 + mp.declared * (mp.shape[1] + mp.shape[2])

\* C5: a successfully decoded map holds, for every key of the declared pairs,
\* the value of the last pair with that key, and the decoder has consumed
\* exactly the declared number of pairs.
C5_LastPairWins ==
    MapParsed =>
        /\ \A i \in 1..mp.declared :
              mp.res.val[FromNat(mp.pairs[i][1], mp.shape[1])]
                = FromNat(mp.pairs[LastWith(mp.pairs, mp.declared, mp.pairs[i][1])][2],
                          mp.shape[2])
        /\ MapConsumedDeclared

\* What the code does instead: the first pair with a key wins.
MapFirstPairWins ==
    MapParsed =>
        /\ DOMAIN mp.res.val = {FromNat(mp.pairs[i][1], mp.shape[1]) : i \in 1..mp.declared}
        /\ \A i \in 1..mp.declared :
              mp.res.val[FromNat(mp.pairs[i][1], mp.shape[1])]
                = FromNat(mp.pairs[FirstWith(mp.pairs, mp.declared, mp.pairs[i][1])][2],
                          mp.shape[2])
        /\ MapConsumedDeclared

-----------------------------------------------------------------------------
(* SpecStats: the statistics parser run on files laid out from a list of   *)
(* tags, the map visited in any order                                      *)

MaxStatEntries == 3

\* A tag that is none of the three metadata types.
UnknownTag == 99

StatTags == {Validation, Compaction, Stats, UnknownTag}

KnownTags == {Validation, Compaction, Stats}

ValidationBody == BE(1, 2) \o <<112>> \o BE(77, 8)

ValidationValue ==
    [partitioner |-> <<112>>, filter_chance |-> <<77, 0, 0, 0, 0, 0, 0, 0>>]

CompactionBody == BE(1, 4) \o BE(9, 4) \o BE(2, 4) \o <<1, 2>>

CompactionValue == [ancestors |-> <<<<9, 0, 0, 0>>>>, cardinality |-> <<<<1>>, <<2>>>>]

StatsBody ==
    BE(1, 4) \o BE(3, 8) \o BE(4, 8) \o BE(0, 4) \o BE(5, 8) \o BE(6, 4)
        \o BE(7, 8) \o BE(8, 8) \o BE(9, 4) \o BE(10, 8)
        \o BE(11, 4) \o BE(1, 4) \o BE(12, 8) \o BE(13, 8)
        \o BE(14, 4) \o BE(15, 8) \o BE(1, 4) \o BE(1, 2) \o <<97>> \o BE(0, 4) \o <<1>>

StatsValue ==
    [estimated_row_size |->
         [elements |-> <<[offset |-> FromNat(3, 8), bucket |-> FromNat(4, 8)]>>],
     estimated_column_count |-> [elements |-> <<>>],
     position |-> [segment |-> FromNat(5, 8), position |-> FromNat(6, 4)],
     min_timestamp |-> FromNat(7, 8),
     max_timestamp |-> FromNat(8, 8),
     max_local_deletion_time |-> FromNat(9, 4),
     compression_ratio |-> FromNat(10, 8),
     estimated_tombstone_drop_time |->
         [max_bin_size |-> FromNat(11, 4), hash |-> (FromNat(12, 8) :> FromNat(13, 8))],
     sstable_level |-> FromNat(14, 4),
     repaired_at |-> FromNat(15, 8),
     min_column_names |-> <<<<97>>>>,
     max_column_names |-> <<>>,
     has_legacy_counter_shards |-> <<1>>]

BodyOf(t) ==
    CASE t = Validation -> ValidationBody
      [] t = Compaction -> CompactionBody
      [] t = Stats -> StatsBody
      [] OTHER -> <<>>

ValueOf(t) ==
    CASE t = Validation -> ValidationValue
      [] t = Compaction -> CompactionValue
      [] t = Stats -> StatsValue

\* The bodies of the known tags listed, by rising tag or by falling tag
\* (gapped: by falling tag, bytes of no body before each).
BodyOrder(tags, layout) ==
    LET present == {t \in KnownTags : \E i \in DOMAIN tags : tags[i] = t}
        rising == <<Validation, Compaction, Stats>>
        by == IF layout = "rising" THEN rising ELSE Reverse(rising)
    IN  SelectSeq(by, LAMBDA t : t \in present)

\* The bytes between two bodies.
Gap(layout) == IF layout = "gapped" THEN <<238, 238, 238>> ELSE <<>>

RECURSIVE BodiesBefore(_, _, _)
BodiesBefore(order, t, layout) ==
    IF order = <<>> \/ Head(order) = t THEN Len(Gap(layout))
    ELSE Len(Gap(layout)) + Len(BodyOf(Head(order))) + BodiesBefore(Tail(order), t, layout)

StatisticsHeaderLen(tags) == 4 + 8 * Len(tags)

StatisticsLen(tags, layout) ==
    StatisticsHeaderLen(tags)
        + Len(Concat([i \in DOMAIN BodyOrder(tags, layout) |->
                         Gap(layout) \o BodyOf(BodyOrder(tags, layout)[i])]))

\* The offset recorded for a tag: where its body lies, and for an unknown
\* tag a place past the end of the file.
OffsetOf(tags, layout, t) ==
    IF t \in KnownTags
    THEN StatisticsHeaderLen(tags) + BodiesBefore(BodyOrder(tags, layout), t, layout)
    ELSE StatisticsLen(tags, layout) + 1

\* The file, with its last cut bytes missing.
StatisticsFile(tags, layout, cut) ==
    LET order == BodyOrder(tags, layout)
        whole == BE(Len(tags), 4)
                   \o Concat([i \in DOMAIN tags |->
                                BE(tags[i], 4) \o BE(OffsetOf(tags, layout, tags[i]), 4)])
                   \o Concat([i \in DOMAIN order |-> Gap(layout) \o BodyOf(order[i])])
    IN  SubSeq(whole, 1, Len(whole) - cut)

StatsInit ==
    /\ stt \in {[pc |-> "hash", tags |-> tags, layout |-> layout, cut |-> cut,
                 s |-> EmptyStatistics, err |-> NoErr, todo |-> {}, visits |-> <<>>,
                 rd |-> Reader(StatisticsFile(tags, layout, cut), FALSE)] :
                 tags \in SeqsUpTo(StatTags, MaxStatEntries),
                 layout \in {"rising", "falling", "gapped"}, cut \in {0, 1}}
    /\ sst = Off /\ mp = Off /\ sm = Off /\ ix = Off
    /\ wr = Off /\ sto = Off /\ dr = Off /\ toc = Off

StatsHashParsed(st, h) ==
    [st EXCEPT !.s = h.val, !.rd = h.rd, !.err = h.err,
               !.todo = DOMAIN h.val.hash,
               !.pc = IF ~Ok(h) THEN "failed"
                      ELSE IF DOMAIN h.val.hash = {} THEN "done"
                      ELSE "entries"]

\* parse(in, s.hash), the first link of the chain.
StatsParseHash ==
    /\ stt.pc = "hash"
    /\ stt' = StatsHashParsed(stt, parse_statistics_hash(stt.rd))
    /\ UNCHANGED <<sst, mp, sm, ix, wr, sto, dr, toc>>

StatsVisited(st, tag, from, e) ==
    [st EXCEPT !.s = e.val, !.rd = e.rd, !.err = e.err,
               !.todo = st.todo \ {tag},
               !.visits = Append(st.visits,
                                 [tag |-> tag, from |-> from, to |-> e.rd.pos, err |-> e.err]),
               !.pc = IF ~Ok(e) THEN "failed"
                      ELSE IF st.todo = {tag} THEN "done"
                      ELSE "entries"]

\* One round of the do_for_each: the map hands out an entry not yet seen.
StatsVisit ==
    /\ stt.pc = "entries"
    /\ \E tag \in stt.todo :
         stt' = StatsVisited(stt, tag, seek(stt.rd, SizeT(stt.s.hash[tag])).pos,
                             parse_statistics_entry(stt.s, stt.rd, tag))
    /\ UNCHANGED <<sst, mp, sm, ix, wr, sto, dr, toc>>

StatsNext == StatsParseHash \/ StatsVisit

SpecStats == StatsInit /\ [][StatsNext]_vars

StatsParsed == stt.pc = "done"

IsKnownTag(tag) == \E t \in KnownTags : tag = metadata_type(t)

\* C6: after a successful parse the contents map has exactly the known tags
\* of the tag-to-offset map as keys, each with the body its tag selects; a
\* visit of an unknown tag reads nothing and raises no error.
C6_ContentsAreKnownTags ==
    /\ StatsParsed =>
         /\ stt.err = NoErr
         /\ DOMAIN stt.s.contents = {tag \in DOMAIN stt.s.hash : IsKnownTag(tag)}
         /\ \A t \in KnownTags :
              metadata_type(t) \in DOMAIN stt.s.contents
                  => stt.s.contents[metadata_type(t)] = ValueOf(t)
    /\ \A i \in DOMAIN stt.visits :
         ~IsKnownTag(stt.visits[i].tag)
             => /\ stt.visits[i].err = NoErr
                /\ stt.visits[i].to = stt.visits[i].from
                /\ stt.visits[i].tag \notin DOMAIN stt.s.contents

\* A file naming the unknown tag beside a known one, parsed to the end.
C6_Witness ==
    /\ StatsParsed
    /\ metadata_type(UnknownTag) \in DOMAIN stt.s.hash
    /\ metadata_type(Stats) \in DOMAIN stt.s.contents
    /\ Cardinality(DOMAIN stt.s.hash) = 3

\* The type of body a tag selects.
ChildOf(tag) ==
    CASE tag = metadata_type(Validation) -> validation_metadata
      [] tag = metadata_type(Compaction) -> compaction_metadata
      [] tag = metadata_type(Stats) -> stats_metadata

\* The body of a tag parsed on its own, from the offset the map gives it.
BodyAtOffset(tag) ==
    parse(seek(Reader(stt.rd.data, FALSE), SizeT(stt.s.hash[tag])), ChildOf(tag))

KnownInHash == {tag \in DOMAIN stt.s.hash : IsKnownTag(tag)}

\* C23: the order in which the map of tags to offsets is gone through does
\* not show in the result: whichever order was taken, the parse succeeds
\* exactly when every body parses from its own offset, and the contents are
\* then those bodies, wherever and in whatever order they lie in the file.
C23_OrderIndependent ==
    /\ StatsParsed =>
          /\ \A tag \in KnownInHash : Ok(BodyAtOffset(tag))
          /\ stt.s.contents = [tag \in KnownInHash |-> BodyAtOffset(tag).val]
    /\ (stt.pc = "failed" /\ stt.visits # <<>>) =>
          \E tag \in KnownInHash : ~Ok(BodyAtOffset(tag))

\* Three bodies lying by falling tag with bytes between them, visited Stats
\* first, then Validation, then Compaction.
C23_Witness ==
    /\ StatsParsed
    /\ stt.layout = "gapped"
    /\ Len(stt.visits) = 3
    /\ stt.visits[1].tag = metadata_type(Stats)
    /\ stt.visits[2].tag = metadata_type(Validation)
    /\ stt.visits[3].tag = metadata_type(Compaction)
    /\ stt.s.contents[metadata_type(Compaction)] = CompactionValue

-----------------------------------------------------------------------------
(* SpecSummary: the summary parser run, link by link, on files laid out    *)
(* from a list of positions and a memory size                              *)

MaxSumEntries == 2

\* Places in the memory stream, counted from the end of the positions table.
SlotEdges == {0, 4, 9, 12, 21}

Pattern(n) == [i \in 1..n |-> 16 + i]

LE(n, w) == FromNat(n, w)

FirstKey == <<102>>

LastKey == <<108, 108>>

SummaryHeaderBytes(n, memsize) ==
    BE(128, 4) \o BE(n, 4) \o BE(memsize, 8) \o BE(7, 4) \o BE(n, 4)

\* The file: header, positions table, the rest of the memory stream, the two
\* keys; its last cut bytes missing.
SummaryFile(positions, memsize, cut) ==
    LET n == Len(positions)
        whole == SummaryHeaderBytes(n, memsize)
                   \o Concat([i \in 1..n |-> LE(positions[i], 4)])
                   \o Pattern(IF memsize > 4 * n THEN memsize - 4 * n ELSE 0)
                   \o BE(Len(FirstKey), 4) \o FirstKey
                   \o BE(Len(LastKey), 4) \o LastKey
    IN  SubSeq(whole, 1, Len(whole) - cut)

\* The same file with 2^32 added to the memory_size of its header.
HugeSummaryFile(positions, memsize) ==
    BE(128, 4) \o BE(Len(positions), 4)
        \o write_integer(FromNat(memsize, 4) \o FromNat(1, 4))
        \o SubSeq(SummaryFile(positions, memsize, 0), 17,
                  Len(SummaryFile(positions, memsize, 0)))

\* No call of read_summary_entry made yet.
NoCall == [i |-> <<>>, err |-> NoErr, val |-> EmptySummaryEntry, before |-> EmptySummary]

SummaryInit ==
    /\ \/ sm \in {SummaryRun(Reader(SummaryFile(positions, memsize, cut), FALSE))
                    @@ [positions |-> positions, memsize |-> memsize, cut |-> cut,
                        high |-> 0, call |-> NoCall] :
                    positions \in UNION {[1..n -> {4 * n + e : e \in SlotEdges}] : n \in 0..MaxSumEntries},
                    memsize \in {4 * n + e : n \in 0..MaxSumEntries, e \in SlotEdges},
                    cut \in {0, 1}}
       \/ sm \in {SummaryRun(Reader(HugeSummaryFile(positions, memsize), FALSE))
                    @@ [positions |-> positions, memsize |-> memsize, cut |-> 0,
                        high |-> 1, call |-> NoCall] :
                    positions \in UNION {[1..n -> {4 * n}] : n \in 0..MaxSumEntries},
                    memsize \in {4 * n + e : n \in 0..MaxSumEntries, e \in {0, 12}}}
    /\ sst = Off /\ mp = Off /\ stt = Off /\ ix = Off
    /\ wr = Off /\ sto = Off /\ dr = Off /\ toc = Off

SumParseHeader ==
    /\ sm.pc = "header"
    /\ sm' = parse_summary_header(sm)
    /\ UNCHANGED <<sst, mp, stt, ix, wr, sto, dr, toc>>

SumReadPositions ==
    /\ sm.pc = "positions"
    /\ sm' = read_summary_positions(sm)
    /\ UNCHANGED <<sst, mp, stt, ix, wr, sto, dr, toc>>

SumParseKeys ==
    /\ sm.pc = "keys"
    /\ sm' = parse_summary_keys(sm)
    /\ UNCHANGED <<sst, mp, stt, ix, wr, sto, dr, toc>>

SumBeginEntries ==
    /\ sm.pc = "begin"
    /\ sm' = begin_summary_entries(sm)
    /\ UNCHANGED <<sst, mp, stt, ix, wr, sto, dr, toc>>

SumParseEntry ==
    /\ sm.pc = "entries"
    /\ \E ub \in UBOutcomes : sm' = parse_summary_entry(sm, ub)
    /\ UNCHANGED <<sst, mp, stt, ix, wr, sto, dr, toc>>

SumDropPositions ==
    /\ sm.pc = "drop"
    /\ sm' = drop_summary_positions(sm)
    /\ UNCHANGED <<sst, mp, stt, ix, wr, sto, dr, toc>>

\* What a call of read_summary_entry leaves: its result, and the summary as
\* it was before the call.
SummaryEntryRead(p, i, r) ==
    [p EXCEPT !.s = r.s,
              !.call = [i |-> i, err |-> r.err, val |-> r.val, before |-> p.s]]

\* read_summary_entry(i) on the summary as the parse left it
SumReadEntry ==
    /\ sm.pc \in {"done", "failed"}
    /\ \E i \in 0..(MaxSumEntries + 1) :
          sm' = SummaryEntryRead(sm, FromNat(i, 8), read_summary_entry(sm.s, FromNat(i, 8)))
    /\ UNCHANGED <<sst, mp, stt, ix, wr, sto, dr, toc>>

SummaryNext ==
    \/ SumParseHeader \/ SumReadPositions \/ SumParseKeys
    \/ SumBeginEntries \/ SumParseEntry \/ SumDropPositions
    \/ SumReadEntry

SpecSummary == SummaryInit /\ [][SummaryNext]_vars

\* The edges of slot i (from 1) as the file was laid out: the i-th position
\* and its successor, the memory size standing in after the last position.
SlotFrom(i) == sm.positions[i]

SlotTo(i) == IF i < Len(sm.positions) THEN sm.positions[i + 1] ELSE sm.memsize

SlotMalformed(i) ==
    \/ SlotTo(i) < SlotFrom(i)
    \/ SlotTo(i) - SlotFrom(i) < 8
    \/ SizeofSummaryHeader + SlotTo(i) > Len(sm.rd.data)

EntryIsSlot(i) ==
    /\ sm.s.entries[i].key =
          SubSeq(sm.rd.data, SizeofSummaryHeader + SlotFrom(i) + 1,
                 SizeofSummaryHeader + SlotTo(i) - 8)
    /\ \A k \in 1..8 :
          sm.s.entries[i].position[k] = sm.rd.data[SizeofSummaryHeader + SlotTo(i) + 1 - k]

\* C9: in a successfully parsed summary with header.size = n, entry i is built
\* from the bytes [positions[i], positions[i+1]) of the memory stream that
\* begins right after the header: its position is the big-endian value of the
\* last 8 bytes of the slot, its key is all the bytes before them, and the
\* entries are in positions order.
C9_EntriesAreSlots ==
    sm.pc = "done" =>
        /\ Len(sm.s.entries) = Len(sm.positions)
        /\ \A i \in 1..Len(sm.positions) : EntryIsSlot(i)

\* The same on the files whose slots all hold the 8 bytes of a position.
EntriesAreSlotsOfEightOrMore ==
    (sm.pc = "done" /\ \A i \in 1..Len(sm.positions) : ~SlotMalformed(i)) =>
        /\ Len(sm.s.entries) = Len(sm.positions)
        /\ \A i \in 1..Len(sm.positions) : EntryIsSlot(i)

SummaryParsedSlots ==
    /\ sm.pc = "done"
    /\ Len(sm.positions) = MaxSumEntries
    /\ \A i \in 1..Len(sm.positions) : ~SlotMalformed(i)
    /\ \E i \in 1..Len(sm.positions) : sm.s.entries[i].key # <<>>

\* C10: every structural size mismatch of a summary slot is fatal: when some
\* slot ends before it starts, is shorter than the 8 bytes of a position, or
\* runs past the end of the file, the parse fails with an error, and no entry
\* is ever stored whose key length came from a wrapped-around size.
C10_MalformedSlotIsFatal ==
    (sm.pc # "off" /\ \E i \in 1..Len(sm.positions) : SlotMalformed(i)) =>
        /\ sm.pc \notin {"done", "crashed"}
        /\ \A i \in 1..Len(sm.s.entries) :
              sm.s.entries[i].keysize = FromNat(Len(sm.s.entries[i].key), SizeofPosType)

\* The two mismatches the buffer-size check does catch.
BackwardOrOverlongSlotIsFatal ==
    (sm.pc # "off" /\ \E i \in 1..Len(sm.positions) :
        /\ SlotTo(i) < SlotFrom(i) \/ SizeofSummaryHeader + SlotTo(i) > Len(sm.rd.data)
        /\ \A j \in 1..i : SlotTo(j) < SlotFrom(j) \/ SlotTo(j) - SlotFrom(j) >= 8) =>
        sm.pc \notin {"done", "crashed"}

-----------------------------------------------------------------------------
(* SpecIndex: read_indexes on index files of whole entries, with or        *)
(* without the first bytes of one more entry after them                    *)

MaxIndexEntries == 3

IndexKey(i) == IF i % 2 = 1 THEN <<64 + i>> ELSE <<64 + i, 32>>

IndexPromoted(i) == IF i % 2 = 1 THEN <<>> ELSE <<7>>

IndexEntryValue(i) ==
    [key |-> IndexKey(i), position |-> FromNat(16 * i, 8), promoted_index |-> IndexPromoted(i)]

IndexEntryBytes(i) ==
    BE(Len(IndexKey(i)), 2) \o IndexKey(i) \o BE(16 * i, 8)
        \o BE(Len(IndexPromoted(i)), 4) \o IndexPromoted(i)

\* k whole entries and the first tail bytes of entry k + 1.
IndexFile(k, tail) ==
    Concat([i \in 1..k |-> IndexEntryBytes(i)]) \o SubSeq(IndexEntryBytes(k + 1), 1, tail)

IndexInit ==
    /\ ix \in {[pc |-> "call", k |-> k, tail |-> tail, skip |-> skip, asked |-> asked,
                file |-> Reader(IndexFile(k, tail), stall)] :
                 k \in 0..MaxIndexEntries, tail \in {0, 1, 5}, skip \in 0..1,
                 asked \in 0..(MaxIndexEntries + 1), stall \in BOOLEAN}
    /\ sst = Off /\ mp = Off /\ stt = Off /\ sm = Off
    /\ wr = Off /\ sto = Off /\ dr = Off /\ toc = Off

\* The call: read_indexes(position, quantity), position at the start of
\* entry skip + 1.
IxCall ==
    /\ ix.pc = "call"
    /\ ix' = IndexReader(ix.file, FromNat(Len(IndexFile(Min(ix.skip, ix.k), 0)), 8),
                         FromNat(ix.asked, 8))
               @@ ix
    /\ UNCHANGED <<sst, mp, stt, sm, wr, sto, dr, toc>>

IxRound ==
    /\ ix.pc = "loop"
    /\ ~index_end(ix)
    /\ ix' = index_round(ix)
    /\ UNCHANGED <<sst, mp, stt, sm, wr, sto, dr, toc>>

IxReturn ==
    /\ ix.pc = "loop"
    /\ index_end(ix)
    /\ ix' = index_return(ix)
    /\ UNCHANGED <<sst, mp, stt, sm, wr, sto, dr, toc>>

IndexNext == IxCall \/ IxRound \/ IxReturn

SpecIndex == IndexInit /\ [][IndexNext]_vars

\* ENABLED <<IndexNext>>_vars as a state predicate: the call and the return
\* change pc, a round is a step when it changes the reader.
IxEnabled ==
    \/ ix.pc = "call"
    \/ ix.pc = "loop" /\ index_end(ix)
    \/ ix.pc = "loop" /\ ~index_end(ix) /\ index_round(ix) # ix

\* The reactor runs every continuation that is ready, so a call that can take
\* its next step takes it: WF_vars(IndexNext), which is the disjunction below,
\* and with it WF_vars(IxReturn).
SpecIndexFair ==
    /\ IndexInit /\ [][IndexNext]_vars
    /\ []<>~IxEnabled \/ []<><<IndexNext>>_vars
    /\ WF_vars(IxReturn)

IndexCalled == ix.pc \in {"loop", "done", "failed"}

\* The whole entries from the position of the call on.
WholeEntries == IF ix.k > ix.skip THEN ix.k - ix.skip ELSE 0

IndexSkipped == Min(ix.skip, ix.k)

IndexUnderfullNotAtEof ==
    /\ ix.pc = "failed"
    /\ ix.stream.short /\ ~ix.stream.eof
    /\ Len(ix.indexes) >= 1

IndexReturned == ix.pc \in {"done", "failed"}

\* One round of the loop adds one to the count, or sets it to its maximum
\* with the stream at end of file, or fails the call.
RoundAdvances ==
    (ix.pc = "loop" /\ ~index_end(ix)) =>
        \/ ix'.count = Add(ix.count, FromNat(1, 8)) /\ Len(ix'.indexes) = Len(ix.indexes) + 1
        \/ ix'.count = MaxCount /\ ix'.stream.eof /\ ix'.indexes = ix.indexes
        \/ ix'.pc = "failed"

\* Between the rounds and in the list returned: no more entries than asked
\* for, each a whole entry of the file, none the entry of a failed parse.
OnlyWholeEntries ==
    (ix.pc \in {"loop", "done"}) =>
        /\ Len(ix.indexes) <= ix.asked
        /\ Len(ix.indexes) <= WholeEntries
        /\ ix.indexes = [i \in 1..Len(ix.indexes) |-> IndexEntryValue(IndexSkipped + i)]
        /\ ix.count \in {FromNat(Len(ix.indexes), 8), MaxCount}

\* C28: read_indexes(position, quantity) returns or fails, whatever the
\* quantity (0 included) and the file: every round of its loop adds one to
\* the count, sets the count to its maximum at end of file, or fails; and the
\* list it returns holds at most quantity entries, all whole entries of the
\* file, never the entry emplaced for a parse that failed.
C28_ReadIndexesTerminates ==
    /\ <>IndexReturned
    /\ [][RoundAdvances]_vars
    /\ []OnlyWholeEntries

C28_Witness ==
    /\ ix.pc = "done"
    /\ ix.tail = 5 /\ ~ix.stream.stall
    /\ ix.k = MaxIndexEntries /\ ix.skip = 0 /\ ix.asked = MaxIndexEntries + 1
    /\ ix.count = MaxCount
    /\ Len(ix.indexes) = MaxIndexEntries
    /\ ix.stream.eof

NothingAskedFor ==
    /\ ix.pc = "done"
    /\ ix.asked = 0 /\ ix.k >= 1
    /\ ix.indexes = <<>>
    /\ ix.count = Zeros(8)

PartialEntryFailsCall ==
    /\ ix.pc = "failed"
    /\ ix.tail = 5 /\ ix.stream.stall

-----------------------------------------------------------------------------
(* Spec: sstable::load on a directory whose files the environment chooses  *)
(* as each step opens them                                                 *)

FileStatus == {"ok", "ENOENT", "EACCES", "EIO"}

OpenStatus == {"ok", "ENOENT", "EACCES"}

Lines(names) == Concat([i \in DOMAIN names |-> <<names[i], "\n">>])

TocFiles ==
    {Lines(<<"Data.db", "Index.db", "Summary.db", "Statistics.db", "TOC.txt">>),
     Lines(<<"Data.db", "CompressionInfo.db", "Filter.db">>) \o <<"\n", "TOC.txt">>,
     Lines(<<"Data.db", "Bogus.db">>),
     <<"\n">>,
     [i \in 1..TocBufferSize |-> "\n"]}

StatisticsFiles ==
    {StatisticsFile(<<Validation>>, "rising", 0),
     StatisticsFile(<<UnknownTag, Compaction, Validation>>, "falling", 0),
     StatisticsFile(<<Compaction, Validation>>, "rising", 1)}

Picks ==
    {[i \in 1..4 |-> metadata_type(<<Validation, Compaction, Stats, UnknownTag>>[i])],
     [i \in 1..4 |-> metadata_type(<<UnknownTag, Stats, Compaction, Validation>>[i])]}

CompressionBytes ==
    BE(1, 2) \o <<76>> \o BE(1, 4) \o BE(1, 2) \o <<107>> \o BE(1, 2) \o <<118>>
        \o BE(64, 4) \o BE(100, 8) \o BE(1, 4) \o BE(0, 8)

CompressionFiles == {CompressionBytes, Front(CompressionBytes)}

FilterBytes == BE(3, 4) \o BE(2, 4) \o BE(5, 8) \o BE(6, 8)

FilterFiles == {FilterBytes, SubSeq(FilterBytes, 1, 10)}

SummaryFiles ==
    {SummaryFile(<<4>>, 13, 0), SummaryFile(<<4>>, 13, 1), SummaryFile(<<4>>, 8, 0),
     SummaryFile(<<>>, 0, 0)}

DataFileSizes == {FromNat(0, 8), FromNat(100, 8)}

Init ==
    /\ sst = [pc |-> "read_toc"] @@ NewSSTable
    /\ mp = Off /\ stt = Off /\ sm = Off /\ ix = Off
    /\ wr = Off /\ sto = Off /\ dr = Off /\ toc = Off

LoadReadToc ==
    /\ sst.pc = "read_toc"
    /\ \E status \in FileStatus, file \in TocFiles :
         sst' = load_then(read_toc(sst, status, file), "read_statistics")
    /\ UNCHANGED <<mp, stt, sm, ix, wr, sto, dr, toc>>

LoadReadStatistics ==
    /\ sst.pc = "read_statistics"
    /\ \E status \in FileStatus, file \in StatisticsFiles, pick \in Picks :
         sst' = load_then(read_statistics(sst, status, file, pick), "read_compression")
    /\ UNCHANGED <<mp, stt, sm, ix, wr, sto, dr, toc>>

LoadReadCompression ==
    /\ sst.pc = "read_compression"
    /\ \E status \in FileStatus, file \in CompressionFiles :
         sst' = load_then(read_compression(sst, status, file), "read_filter")
    /\ UNCHANGED <<mp, stt, sm, ix, wr, sto, dr, toc>>

LoadReadFilter ==
    /\ sst.pc = "read_filter"
    /\ \E status \in FileStatus, file \in FilterFiles :
         sst' = load_then(read_filter(sst, status, file), "read_summary")
    /\ UNCHANGED <<mp, stt, sm, ix, wr, sto, dr, toc>>

LoadReadSummary ==
    /\ sst.pc = "read_summary"
    /\ \E status \in FileStatus, file \in SummaryFiles, ub \in UBOutcomes :
         sst' = IF summary_crashes(status, file, ub)
                THEN [read_summary(sst, status, file, ub) EXCEPT !.pc = "crashed"]
                ELSE load_then(read_summary(sst, status, file, ub), "open_data")
    /\ UNCHANGED <<mp, stt, sm, ix, wr, sto, dr, toc>>

LoadOpenData ==
    /\ sst.pc = "open_data"
    /\ sst' = [open_data(sst) EXCEPT !.pc = "opening"]
    /\ UNCHANGED <<mp, stt, sm, ix, wr, sto, dr, toc>>

OpenIndexCompletes ==
    /\ sst.pc = "opening"
    /\ sst.opens.index = "pending"
    /\ \E status \in OpenStatus : sst' = [sst EXCEPT !.opens.index = status]
    /\ UNCHANGED <<mp, stt, sm, ix, wr, sto, dr, toc>>

OpenDataCompletes ==
    /\ sst.pc = "opening"
    /\ sst.opens.data = "pending"
    /\ \E status \in OpenStatus : sst' = [sst EXCEPT !.opens.data = status]
    /\ UNCHANGED <<mp, stt, sm, ix, wr, sto, dr, toc>>

LoadOpenDataThen ==
    /\ sst.pc = "opening"
    /\ sst.opens.index # "pending" /\ sst.opens.data # "pending"
    /\ \E size \in DataFileSizes : sst' = load_then(open_data_then(sst, size), "finish")
    /\ UNCHANGED <<mp, stt, sm, ix, wr, sto, dr, toc>>

LoadFinish ==
    /\ sst.pc = "finish"
    /\ sst' = [load_finish(sst) EXCEPT !.pc = "loaded"]
    /\ UNCHANGED <<mp, stt, sm, ix, wr, sto, dr, toc>>

Next ==
    \/ LoadReadToc \/ LoadReadStatistics \/ LoadReadCompression \/ LoadReadFilter
    \/ LoadReadSummary \/ LoadOpenData \/ OpenIndexCompletes \/ OpenDataCompletes
    \/ LoadOpenDataThen \/ LoadFinish

Spec == Init /\ [][Next]_vars

Loading == sst.pc # "off"

\* Step i threw, whatever its own handler then made of it.
StepFailed(i) == sst.raised[i] # NoErr

\* C1: when a step of load fails with any kind of error, an OS error other
\* than ENOENT on opening or reading a component file included, load completes
\* with a failure and no later step is started.
C1_StepFailureFailsLoad ==
    Loading =>
        \A i \in 1..Len(sst.raised) :
            StepFailed(i) => sst.pc = "failed" /\ Len(sst.started) = i

\* The same of the errors that are not std::system_error.
OtherFailureFailsLoad ==
    Loading =>
        \A i \in 1..Len(sst.raised) :
            (StepFailed(i) /\ sst.raised[i].type # "system_error") =>
                sst.pc = "failed" /\ Len(sst.started) = i /\ sst.err = sst.raised[i]

IsPrefix(a, b) == Len(a) <= Len(b) /\ a = SubSeq(b, 1, Len(a))

\* The files load goes to, in the order of its chain.
StepsInOrder ==
    <<"TOC", "Statistics">>
        \o (IF has_component(sst, "CompressionInfo") THEN <<"CompressionInfo">> ELSE <<>>)
        \o (IF has_component(sst, "Filter") THEN <<"Filter">> ELSE <<>>)
        \o <<"Summary", "Data">>

LoadOrder ==
    Loading =>
        /\ IsPrefix(sst.started, StepsInOrder)
        /\ sst.updates <= 1
        /\ sst.updates = 1 <=> (sst.pc = "loaded" /\ has_component(sst, "CompressionInfo"))
        /\ sst.pc = "loaded" => sst.started = StepsInOrder

\* C2: the steps of load start in the order TOC, Statistics, CompressionInfo
\* (only when the TOC lists it), Filter, Summary, Index and Data, and last the
\* data file size is handed to the compression metadata (only when
\* CompressionInfo is present); a step starts only after the step before it
\* has completed successfully, and no step runs twice.
C2_StrictSequence ==
    /\ LoadOrder
    /\ Loading => \A i \in 1..Len(sst.started) : i < Len(sst.started) => ~StepFailed(i)

\* C3: after a load that failed the table is as it was before load was
\* called: no component, no statistics contents, no summary entry, and no
\* index or data file handle held.
C3_FailedLoadLeavesUnloaded ==
    sst.pc = "failed" =>
        /\ sst._components = {}
        /\ DOMAIN sst._statistics.contents = {}
        /\ sst._summary.entries = <<>>
        /\ sst._index_file = NoFile
        /\ sst._data_file = NoFile

\* The files of step i that were not there when it opened them.
MissingFiles(i) ==
    IF sst.started[i] = "Data"
    THEN {f \in {"Index", "Data"} :
             (f = "Index" /\ sst.opens.index = "ENOENT") \/ (f = "Data" /\ sst.opens.data = "ENOENT")}
    ELSE {sst.started[i]}

NotFound(e, f) ==
    /\ e.type = "malformed_sstable_exception"
    /\ IsPrefix(filename(f), e.msg)

\* C4: for every component file that load opens, when the open fails with
\* ENOENT the load fails with a malformed-sstable error whose message holds
\* the path of that file, never with the OS error itself.
C4_MissingFileIsMalformed ==
    Loading =>
        \A i \in 1..Len(sst.raised) :
            sst.raised[i] = system_error("ENOENT") =>
                /\ sst.pc = "failed"
                /\ \E f \in MissingFiles(i) : NotFound(sst.err, f)

\* The same of the files read by read_toc and read_simple.
MissingReadFileIsMalformed ==
    Loading =>
        \A i \in 1..Len(sst.raised) :
            (sst.raised[i] = system_error("ENOENT") /\ sst.started[i] # "Data") =>
                /\ sst.pc = "failed"
                /\ NotFound(sst.err, sst.started[i])

\* C8: outside read_indexes an underfull read is never swallowed: when a read
\* issued while parsing the Statistics, CompressionInfo, Filter or Summary file
\* has returned fewer bytes than asked for, load has failed with the
\* buffer-size error that carries what the read got and what it wanted.
C8_UnderfullReadFailsLoad ==
    (Loading /\ sst.rd.short) =>
        /\ sst.pc = "failed"
        /\ sst.err = bufsize_mismatch_exception(sst.rd.got, sst.rd.want)
        /\ ~IsSmall(sst.rd.want) \/ sst.rd.got < ToNat(sst.rd.want)
        /\ sst.started[Len(sst.started)] \in {"Statistics", "CompressionInfo", "Filter", "Summary"}

C8_Witness ==
    /\ sst.pc = "failed"
    /\ sst.rd.short
    /\ sst.started[Len(sst.started)] = "Summary"
    /\ "Filter" \in sst._components

UnderfullStatistics ==
    sst.pc = "failed" /\ sst.rd.short /\ sst.started[Len(sst.started)] = "Statistics"

UnderfullCompression ==
    sst.pc = "failed" /\ sst.rd.short /\ sst.started[Len(sst.started)] = "CompressionInfo"

UnderfullFilter ==
    sst.pc = "failed" /\ sst.rd.short /\ sst.started[Len(sst.started)] = "Filter"

\* The CompressionInfo file was gone to, and parsed without an error.
CompressionStarted == \E i \in DOMAIN sst.started : sst.started[i] = "CompressionInfo"

CompressionParsed ==
    \E i \in DOMAIN sst.started :
        /\ sst.started[i] = "CompressionInfo"
        /\ i \in DOMAIN sst.raised
        /\ sst.raised[i] = NoErr

PastCompression ==
    sst.pc \in {"read_filter", "read_summary", "open_data", "opening", "finish", "loaded"}

\* What the code does: the CompressionInfo file is gone to exactly when the
\* TOC names it, and update(data_file_size) is called once, at the end of a
\* load that got through with the Data file open, exactly when the TOC names it.
CompressionStepGuarded ==
    Loading =>
        /\ CompressionStarted => has_component(sst, "CompressionInfo")
        /\ PastCompression => (CompressionStarted <=> has_component(sst, "CompressionInfo"))
        /\ sst.updates <= 1
        /\ sst.updates = 1 <=> (sst.pc = "loaded" /\ has_component(sst, "CompressionInfo"))
        /\ sst.updates = 1 =>
              /\ sst._data_file = "Data"
              /\ sst._data_file_size \in DataFileSizes
              /\ sst._compression["data_file_size"] = sst._data_file_size
        /\ ~has_component(sst, "CompressionInfo") => sst._compression = EmptyCompression

\* C24: load opens and parses the CompressionInfo file exactly when the
\* components read from the TOC have CompressionInfo among them; the
\* compression metadata gets update(data_file_size) once, in that case alone
\* and after the Data file is open and its size taken; without
\* CompressionInfo the file is not read and update not called.
C24_CompressionOnlyWhenPresent ==
    /\ CompressionStepGuarded
    /\ (Loading /\ PastCompression) =>
          (CompressionParsed <=> has_component(sst, "CompressionInfo"))
    /\ (Loading /\ sst.updates = 1) => CompressionParsed

CompressionUpdated ==
    /\ sst.pc = "loaded"
    /\ sst.updates = 1
    /\ CompressionParsed
    /\ sst._compression["data_file_size"] = FromNat(100, 8)

LoadedWithoutCompression ==
    /\ sst.pc = "loaded"
    /\ ~has_component(sst, "CompressionInfo")
    /\ sst.updates = 0
    /\ ~CompressionStarted

UpdateOfUnparsedCompression ==
    /\ sst.pc = "loaded"
    /\ sst.updates = 1
    /\ ~CompressionParsed
    /\ \E i \in DOMAIN sst.started :
          sst.started[i] = "CompressionInfo" /\ sst.raised[i] = system_error("EACCES")

OpenFailed ==
    \/ sst.opens.index \notin {"idle", "pending", "ok"}
    \/ sst.opens.data \notin {"idle", "pending", "ok"}

\* What the code does in the open step, whichever open completes first: no
\* handle is set while an open is pending, the load goes on only with both
\* files open, both handles set and the size of the data file taken, and it
\* fails when an open failed.
OpenStepWaitsForBoth ==
    Loading =>
        /\ sst.pc = "opening" => sst._index_file = NoFile /\ sst._data_file = NoFile
        /\ sst.pc \in {"finish", "loaded"} =>
              /\ sst.opens = [index |-> "ok", data |-> "ok"]
              /\ sst._index_file = "Index" /\ sst._data_file = "Data"
              /\ sst._data_file_size \in DataFileSizes
        /\ OpenFailed => sst.pc \in {"opening", "failed"}
        /\ (sst.pc = "failed" /\ sst.opens.index # "idle") =>
              /\ OpenFailed
              /\ sst.opens.index # "pending" /\ sst.opens.data # "pending"
              /\ sst._data_file = NoFile

\* C20: in the open step of load the two opens complete in either order and
\* the step goes on only after both: with both handles set and the size of
\* the data file taken; when an open fails the step fails and neither handle
\* is set.
C20_OpenStep ==
    /\ OpenStepWaitsForBoth
    /\ (Loading /\ OpenFailed) => sst._index_file = NoFile /\ sst._data_file = NoFile

IndexOpenedFirst ==
    /\ sst.pc = "opening"
    /\ sst.opens = [index |-> "ok", data |-> "pending"]

DataOpenedFirst ==
    /\ sst.pc = "opening"
    /\ sst.opens = [index |-> "pending", data |-> "ok"]

BothOpened ==
    /\ sst.pc = "finish"
    /\ sst._index_file = "Index" /\ sst._data_file = "Data"
    /\ sst._data_file_size # Zeros(8)

IndexHandleOfFailedOpen ==
    /\ sst.pc = "failed"
    /\ sst.opens = [index |-> "ok", data |-> "ENOENT"]
    /\ sst._index_file = "Index"
    /\ sst._data_file = NoFile

-----------------------------------------------------------------------------
(* SpecWrite: a value written to an output stream by the overload of its   *)
(* type, and the bytes written parsed back by the overload of parse        *)

\* The short lengths, and how far past the maximum of a one-byte prefix the
\* long ones go.
MaxShortLen == 2

MaxOver == 1

Lens(sw) ==
    (0..MaxShortLen)
        \cup (IF sw = 1 THEN 253..(255 + MaxOver) ELSE {})
        \cup (IF sw = 2 THEN {65534, 65535} ELSE {})

Text(n) == [i \in 1..n |-> 65 + (i % 7)]

Numbers(n, w) == [i \in 1..n |-> FromNat(i % 256, w)]

Texts(n) == [i \in 1..n |-> Text(i % 3)]

ScalarBytes == {0, 1, 255}

Case(T, v) == [T |-> T, v |-> v]

ScalarCases ==
    UNION {{Case(Integral(w), v) : v \in [1..w -> ScalarBytes]} : w \in {1, 2, 4}}
        \cup {Case(Integral(8), v) :
                 v \in {Zeros(8), <<1, 2, 3, 4, 5, 6, 7, 8>>, <<1, 2, 3, 4, 4, 3, 2, 1>>,
                        <<0, 0, 0, 0, 0, 0, 240, 63>>, numeric_limits_max(8)}}

StringCases == UNION {{Case(DiskString(sw), Text(n)) : n \in Lens(sw)} : sw \in {1, 2}}

IntegralArrayCases ==
    UNION {{Case(DiskArrayIntegral(sw, w), Numbers(n, w)) : n \in Lens(sw) \cap (0..300)} :
              sw \in {1, 2}, w \in {1, 8}}

StringArrayCases == {Case(DiskArray(1, DiskString(2)), Texts(n)) : n \in Lens(1)}

OptionArrayCases ==
    {Case(DiskArray(4, option), [i \in 1..n |-> [key |-> Text(i), value |-> Text(2 * i)]]) :
         n \in 0..MaxShortLen}

FilterCases ==
    {Case(filter, [hashes |-> FromNat(h, 4), buckets |-> Numbers(n, 8)]) :
         h \in {0, 3}, n \in 0..MaxShortLen}

OptionCases == {Case(option, [key |-> Text(k), value |-> Text(n)]) : k, n \in 0..MaxShortLen}

IndexEntryCases ==
    {Case(index_entry, [key |-> Text(k), position |-> FromNat(16 * k, 8),
                        promoted_index |-> Text(n)]) : k, n \in 0..MaxShortLen}

\* disk_hash<uint32_t, metadata_type, uint32_t> values, as parse builds them.
HashCases ==
    {Case(DiskHash(4, 4, 4), [k \in {FromNat(i, 4) : i \in 0..(n - 1)} |-> FromNat(7, 4)]) :
         n \in 0..MaxShortLen}

WriteRun(c) ==
    [pc |-> "write", T |-> c.T, v |-> c.v, out |-> OutputStream({}),
     err |-> NoErr, back |-> <<>>]

WriteInit ==
    /\ \/ \E c \in ScalarCases : wr = WriteRun(c)
       \/ \E c \in StringCases : wr = WriteRun(c)
       \/ \E c \in IntegralArrayCases : wr = WriteRun(c)
       \/ \E c \in StringArrayCases : wr = WriteRun(c)
       \/ \E c \in OptionArrayCases : wr = WriteRun(c)
       \/ \E c \in FilterCases : wr = WriteRun(c)
       \/ \E c \in OptionCases : wr = WriteRun(c)
       \/ \E c \in IndexEntryCases : wr = WriteRun(c)
       \/ \E c \in HashCases : wr = WriteRun(c)
    /\ sst = Off /\ mp = Off /\ stt = Off /\ sm = Off /\ ix = Off
    /\ sto = Off /\ dr = Off /\ toc = Off

Written(w, r) ==
    [w EXCEPT !.out = r.out, !.err = r.err, !.pc = IF r.err = NoErr THEN "parse" ELSE "failed"]

\* write(out, value), where the value's type has an overload of write
WrWrite ==
    /\ wr.pc = "write"
    /\ wr.T.k \in write_overloads
    /\ wr' = Written(wr, write(wr.out, wr.v, wr.T))
    /\ UNCHANGED <<sst, mp, stt, sm, ix, sto, dr, toc>>

\* parse(in, value) on the bytes written
WrParse ==
    /\ wr.pc = "parse"
    /\ wr' = [wr EXCEPT !.back = parse(Reader(wr.out.data, FALSE), wr.T), !.pc = "done"]
    /\ UNCHANGED <<sst, mp, stt, sm, ix, sto, dr, toc>>

WriteNext == WrWrite \/ WrParse

SpecWrite == WriteInit /\ [][WriteNext]_vars

WriteDone == wr.pc \in {"parse", "done", "failed"}

Sized == wr.T.k \in {"disk_string", "disk_array_integral", "disk_array"}

\* 2^bits(S) - 1 for the prefix of the value written; the four-byte maximum
\* only as a number no length written here comes near.
MaxOfPrefix == IF wr.T.sw <= 2 THEN 2 ^ (8 * wr.T.sw) - 1 ELSE 2 ^ 30

C11_LargestPrefix ==
    /\ wr.pc = "done"
    /\ wr.T = DiskString(2)
    /\ Len(wr.v) = 65534
    /\ SubSeq(wr.out.data, 1, 2) = <<255, 254>>

Shape == wr.pc # "off" /\ wr.T.k # "integral"

\* The length of the value is one its prefix can be written with.
Fits == Sized => Len(wr.v) < MaxOfPrefix

RoundTrip == wr.pc = "done" => Ok(wr.back) /\ wr.back.val = wr.v

\* C12: every shape value whose length fits its prefix (sized string, sized
\* array of integers, sized array of records or strings, sized map, record)
\* is written by write, and parsing the bytes written gives the value back.
C12_ShapeRoundTrip ==
    (Shape /\ Fits) =>
        /\ wr.T.k \in write_overloads
        /\ WriteDone => wr.err = NoErr
        /\ RoundTrip

\* The same for the shapes write has an overload for.
WrittenShapeRoundTrip ==
    (Shape /\ Fits /\ wr.T.k \in write_overloads) =>
        /\ WriteDone => wr.err = NoErr
        /\ RoundTrip

WrittenShapeWitness ==
    /\ wr.pc = "done"
    /\ wr.T = DiskArray(1, DiskString(2))
    /\ Len(wr.v) = 254
    /\ wr.back.val = wr.v

Scalar == wr.pc # "off" /\ wr.T.k = "integral"

\* The number a sequence of one or two bytes stands for, most significant first.
BigEndianValue(b) == IF Len(b) = 1 THEN b[1] ELSE 256 * b[1] + b[2]

PositionsRead == sm.pc \in {"keys", "begin", "entries", "drop"}

\* C21: whatever the 64 bits of header.memory_size, 2^32 and more included,
\* the element pushed after the positions read from the file is
\* header.memory_size, the successor the last entry's size is taken from.
C21_TrailingPosition ==
    PositionsRead =>
        /\ Len(sm.s.positions) = ToNat(sm.s.header.size) + 1
        /\ SizeT(sm.s.positions[Len(sm.s.positions)]) = sm.s.header.memory_size

\* What the code does: the element pushed is the low 32 bits of memory_size.
TrailingPositionIsLowWord ==
    PositionsRead =>
        /\ Len(sm.s.positions) = ToNat(sm.s.header.size) + 1
        /\ sm.s.positions[Len(sm.s.positions)] = SubSeq(sm.s.header.memory_size, 1, 4)
        /\ sm.high = 0 => SizeT(sm.s.positions[Len(sm.s.positions)]) = sm.s.header.memory_size

TruncatedTrailingPosition ==
    /\ sm.pc = "keys"
    /\ sm.s.header.memory_size = <<12, 0, 0, 0, 1, 0, 0, 0>>
    /\ sm.s.positions = <<<<4, 0, 0, 0>>, <<12, 0, 0, 0>>>>

\* C22: in the parse of a summary, whatever header.size (0 included), the
\* positions are one more than the entries when the iteration over the
\* entries begins (the assertion holds), positions[0] and the positions[idx]
\* and positions[idx + 1] of every round exist, and a parse that succeeded
\* leaves no positions and header.size entries.
C22_PositionsAndEntries ==
    sm.pc # "off" =>
        /\ sm.pc # "aborted"
        /\ sm.pc \in {"begin", "entries"} =>
              /\ Len(sm.s.positions) = Len(sm.s.entries) + 1
              /\ Len(sm.s.entries) = ToNat(sm.s.header.size)
        /\ sm.pc = "begin" => 1 \in DOMAIN sm.s.positions
        /\ sm.pc = "entries" =>
              /\ sm.idx < Len(sm.s.entries)
              /\ sm.idx + 1 \in DOMAIN sm.s.positions
              /\ sm.idx + 2 \in DOMAIN sm.s.positions
        /\ sm.pc = "done" =>
              /\ sm.s.positions = <<>>
              /\ Len(sm.s.entries) = ToNat(sm.s.header.size)

C22_Witness ==
    /\ sm.pc = "done"
    /\ sm.s.header.size = FromNat(MaxSumEntries, 4)
    /\ Len(sm.s.entries) = MaxSumEntries
    /\ sm.s.positions = <<>>

EmptySummaryParsed ==
    /\ sm.pc = "done"
    /\ sm.s.header.size = Zeros(4)
    /\ sm.s.entries = <<>>
    /\ sm.s.positions = <<>>

\* The place in the memory stream where entry i ends.
SlotEnd(i) == IF i < Len(sm.positions) THEN sm.positions[i + 1] ELSE sm.memsize

\* C27: positions table entry i is the four bytes of the file with the first
\* byte the lowest (01 00 00 00 is position 1), while the five header fields
\* and the eight bytes that end each entry have their first byte the highest.
C27_SummaryByteOrder ==
    /\ PositionsRead =>
          /\ ToNat(sm.s.header.min_index_interval) = 128 /\ sm.rd.data[4] = 128
          /\ ToNat(sm.s.header.size) = Len(sm.positions)
          /\ sm.rd.data[8] = Len(sm.positions)
          /\ sm.s.header.memory_size = FromNat(sm.memsize, 4) \o FromNat(sm.high, 4)
          /\ sm.rd.data[16] = sm.memsize /\ sm.rd.data[12] = sm.high
          /\ ToNat(sm.s.header.sampling_level) = 7 /\ sm.rd.data[20] = 7
          /\ ToNat(sm.s.header.size_at_full_sampling) = Len(sm.positions)
          /\ sm.rd.data[24] = Len(sm.positions)
          /\ \A i \in 1..Len(sm.positions) :
                /\ ToNat(sm.s.positions[i]) = sm.positions[i]
                /\ sm.rd.data[SizeofSummaryHeader + SizeofPosType * (i - 1) + 1] = sm.positions[i]
    /\ sm.pc = "done" =>
          \A i \in 1..Len(sm.positions) :
              SlotEnd(i) >= sm.positions[i] + 8 =>
                  \A j \in 1..8 :
                      sm.s.entries[i].position[j]
                          = sm.rd.data[SizeofSummaryHeader + SlotEnd(i) + 1 - j]

C27_Witness ==
    /\ sm.pc = "done"
    /\ sm.positions = <<8, 17>> /\ sm.memsize = 29 /\ sm.cut = 0
    /\ SubSeq(sm.rd.data, 25, 28) = <<8, 0, 0, 0>>
    /\ sm.s.entries[1].position = <<25, 24, 23, 22, 21, 20, 19, 18>>
    /\ sm.s.entries[2].key = <<26, 27, 28, 29>>

PositionsTableRead ==
    /\ sm.pc = "keys"
    /\ sm.positions = <<8, 20>>
    /\ sm.s.positions[1] = <<8, 0, 0, 0>>
    /\ sm.s.positions[2] = <<20, 0, 0, 0>>

\* C19: read_summary_entry(i) throws std::out_of_range exactly when i is not
\* below the number of entries, returns entry i otherwise, and leaves the
\* summary as it was either way.
C19_SummaryEntryRange ==
    sm.pc # "off" /\ sm.call # NoCall =>
        /\ sm.call.err.type = "out_of_range" <=> ToNat(sm.call.i) >= Len(sm.call.before.entries)
        /\ sm.call.err # NoErr => sm.call.err.type = "out_of_range"
        /\ sm.call.err = NoErr => sm.call.val = sm.call.before.entries[ToNat(sm.call.i) + 1]
        /\ sm.s = sm.call.before

C19_Witness ==
    /\ sm.pc = "done"
    /\ Len(sm.s.entries) = 2
    /\ sm.call.i = FromNat(2, 8)
    /\ sm.call.err = out_of_range(<<"Invalid Summary index: ", "2">>)

LastSummaryEntryRead ==
    /\ sm.pc = "done"
    /\ Len(sm.s.entries) = 2
    /\ sm.call.i = FromNat(1, 8)
    /\ sm.call.err = NoErr
    /\ sm.call.val = sm.s.entries[2]

\* The bytes of a filter as the format lays them out: hashes, the number of
\* buckets, the buckets, each most significant byte first.
FilterEncoding(f) ==
    [i \in 1..(8 + 8 * Len(f.buckets)) |->
        IF i <= 4 THEN f.hashes[5 - i]
        ELSE IF i <= 8 THEN FromNat(Len(f.buckets), 4)[9 - i]
        ELSE f.buckets[((i - 9) \div 8) + 1][8 - ((i - 9) % 8)]]

\* The bytes of an option: the key and the value, each after its length in
\* two bytes.
OptionEncoding(o) ==
    <<Len(o.key) \div 256, Len(o.key) % 256>> \o o.key
        \o <<Len(o.value) \div 256, Len(o.value) % 256>> \o o.value

\* C25: a record that describes itself is written field by field in the
\* order of its describe_type, with no length of the record before them, and
\* parsed in the same order: a filter is its hashes in 4 bytes, the number of
\* its buckets in 4 bytes and the buckets in 8 bytes each, all most
\* significant byte first, an option its key and its value; parsing the bytes
\* takes all of them and gives the record back.
C25_RecordFieldOrder ==
    (WriteDone /\ wr.T \in {filter, option}) =>
        /\ wr.err = NoErr
        /\ wr.T = filter => wr.out.data = FilterEncoding(wr.v)
        /\ wr.T = option => wr.out.data = OptionEncoding(wr.v)
        /\ wr.pc = "done" =>
              /\ Ok(wr.back)
              /\ wr.back.val = wr.v
              /\ wr.back.rd.pos = Len(wr.out.data)

C25_Witness ==
    /\ wr.pc = "done"
    /\ wr.T = filter
    /\ wr.v = [hashes |-> <<3, 0, 0, 0>>,
               buckets |-> <<<<1, 0, 0, 0, 0, 0, 0, 0>>, <<2, 0, 0, 0, 0, 0, 0, 0>>>>]
    /\ wr.out.data = <<0, 0, 0, 3, 0, 0, 0, 2, 0, 0, 0, 0, 0, 0, 0, 1, 0, 0, 0, 0, 0, 0, 0, 2>>
    /\ wr.back.val = wr.v

OptionWritten ==
    /\ wr.pc = "done"
    /\ wr.T = option
    /\ wr.out.data = <<0, 1, 66, 0, 2, 66, 67>>
    /\ wr.back.val = [key |-> <<66>>, value |-> <<66, 67>>]

\* The array of the bytes written decoded member by member, each by the
\* parser of an integer, after the prefix.
ScalarPath == disk_array_then(parse_integer(Reader(wr.out.data, FALSE), wr.T.sw), Integral(wr.T.w))

\* C26: an array of fixed-width integers parsed by the bulk path (one read of
\* count * width bytes, then ntoh on each member) has the members, and leaves
\* the stream at the place, that parsing count integers one after the other
\* gives; with no member both take the prefix alone and give the empty array.
C26_BulkEqualsScalar ==
    (wr.pc = "done" /\ wr.T.k = "disk_array_integral") =>
        /\ Ok(wr.back) /\ Ok(ScalarPath)
        /\ wr.back.val = ScalarPath.val
        /\ wr.back.rd.pos = ScalarPath.rd.pos
        /\ wr.back.rd.pos = wr.T.sw + Len(wr.v) * wr.T.w
        /\ Len(wr.v) = 0 => wr.back.val = <<>> /\ wr.back.rd.pos = wr.T.sw

C26_Witness ==
    /\ wr.pc = "done"
    /\ wr.T = DiskArrayIntegral(1, 8)
    /\ Len(wr.v) = 254
    /\ wr.back.val = ScalarPath.val
    /\ wr.back.rd.pos = 1 + 254 * 8

EmptyArrayParsed ==
    /\ wr.pc = "done"
    /\ wr.T = DiskArrayIntegral(2, 8)
    /\ wr.back.val = <<>>
    /\ wr.back.rd.pos = 2
    /\ ScalarPath.rd.pos = 2

-----------------------------------------------------------------------------
(* sstable::store                                                          *)
(*                                                                         *)
(* sto.t is the table, log the file operations issued in order, files what *)
(* each file written holds and how far it got, raised what each            *)
(* write_simple threw before its own handler, err what the chain holds.    *)

\* open_file_dma(file_path, wo | create | truncate): the file is there and
\* empty once the open succeeded.
open_for_write(s, Type, status) ==
    IF status # "ok"
    THEN [s EXCEPT !.log = Append(@, <<Type, "open">>), !.thrown = system_error(status)]
    ELSE [s EXCEPT !.log = Append(@, <<Type, "open">>), !.thrown = NoErr,
                   !.files = (Type :> [data |-> <<>>, state |-> "open"]) @@ @]

\* write(*w, *this.*Comptr) on the stream over the file
stream_component(s, Type, r) ==
    IF s.thrown # NoErr THEN s
    ELSE [s EXCEPT !.log = Append(@, <<Type, "write">>), !.thrown = r.err,
                   !.files[Type].data = r.out.data,
                   !.files[Type].state = IF r.err = NoErr THEN "streamed" ELSE @]

\* w->flush(), in the continuation of the write
flush(s, Type, refuses) ==
    IF s.thrown # NoErr THEN s
    ELSE [s EXCEPT !.log = Append(@, <<Type, "flush">>),
                   !.thrown = IF "flush" \in refuses THEN system_error("EIO") ELSE NoErr,
                   !.files[Type].state = IF "flush" \in refuses THEN @ ELSE "flushed"]

\* w->close(), in the continuation of the flush: the file is synced here.
close(s, Type, refuses) ==
    IF s.thrown # NoErr THEN s
    ELSE [s EXCEPT !.log = Append(@, <<Type, "close">>),
                   !.thrown = IF "close" \in refuses THEN system_error("EIO") ELSE NoErr,
                   !.files[Type].state = IF "close" \in refuses THEN @ ELSE "closed"]

\* then_wrapped of write_simple: what the future holds after it.
write_simple_wrapped(e) == IF e.type = "system_error" THEN NoErr ELSE e

write_simple_then(s) ==
    [s EXCEPT !.raised = IF s.thrown = NoErr THEN @ ELSE Append(@, s.thrown),
              !.err = write_simple_wrapped(s.thrown),
              !.thrown = NoErr]

\* write_simple<T, Type, Comptr>()
write_simple(s, Type, T, status, refuses) ==
    write_simple_then(
        close(flush(stream_component(open_for_write(s, Type, status), Type,
                                     write(OutputStream(refuses), s.t[Comptr(Type)], T)),
                    Type, refuses),
              Type, refuses))

write_compression(s, status, refuses) ==
    IF ~has_component(s.t, "CompressionInfo") THEN s
    ELSE write_simple(s, "CompressionInfo", compression, status, refuses)

write_filter(s, status, refuses) ==
    IF ~has_component(s.t, "Filter") THEN s
    ELSE write_simple(s, "Filter", filter, status, refuses)

\* What the chain of store does with a step's outcome.
store_then(s, next) == [s EXCEPT !.pc = IF s.err # NoErr THEN "failed" ELSE next]

-----------------------------------------------------------------------------
(* SpecStore: store() on tables as load leaves them                        *)

StoreComponents ==
    {{"Data"}, {"Data", "CompressionInfo"}, {"Data", "Filter"},
     {"Data", "CompressionInfo", "Filter"},
     {"Data", "Index", "Summary", "Statistics", "CompressionInfo", "Filter", "TOC"}}

Opt(i) == [key |-> Text(i), value |-> Text(2 * i)]

\* name, options, chunk_len, data_len, offsets; the last with a name that
\* parse accepts (prefix FF FF) and write refuses.
Compressions ==
    {[name |-> Text(n), options |-> [i \in 1..k |-> Opt(i)], chunk_len |-> FromNat(64, 4),
      data_len |-> FromNat(100, 8), offsets |-> Numbers(k, 8)] :
         n \in {3, 65535}, k \in 0..MaxShortLen}

Filters == {[hashes |-> FromNat(3, 4), buckets |-> Numbers(n, 8)] : n \in 0..MaxShortLen}

WriteStatus == {"ok", "EACCES", "ENOSPC"}

Refusals == SUBSET {"write", "flush", "close"}

StoreRun(t) ==
    [pc |-> "compression", t |-> t, err |-> NoErr, thrown |-> NoErr, raised |-> <<>>,
     log |-> <<>>, files |-> [c \in {} |-> <<>>]]

StoreInit ==
    /\ \E cs \in StoreComponents, c \in Compressions, f \in Filters :
          sto = StoreRun([_components |-> cs, _compression |-> c, _filter |-> f])
    /\ sst = Off /\ mp = Off /\ stt = Off /\ sm = Off /\ ix = Off
    /\ wr = Off /\ dr = Off /\ toc = Off

\* write_compression(), the first step of store
StoWriteCompression ==
    /\ sto.pc = "compression"
    /\ \E status \in WriteStatus, refuses \in Refusals :
          sto' = store_then(write_compression(sto, status, refuses), "filter")
    /\ UNCHANGED <<sst, mp, stt, sm, ix, wr, dr, toc>>

\* write_filter(), in the continuation of write_compression
StoWriteFilter ==
    /\ sto.pc = "filter"
    /\ \E status \in WriteStatus, refuses \in Refusals :
          sto' = store_then(write_filter(sto, status, refuses), "done")
    /\ UNCHANGED <<sst, mp, stt, sm, ix, wr, dr, toc>>

StoreNext == StoWriteCompression \/ StoWriteFilter

SpecStore == StoreInit /\ [][StoreNext]_vars

\* C14: an error raised while a component is stored (by the open, the write,
\* the flush or the close) fails store with that error; store does not
\* succeed after a component's write met an error of the operating system.
C14_StoreErrorsPropagate ==
    (sto.pc # "off" /\ sto.raised # <<>>) =>
        /\ sto.pc = "failed"
        /\ sto.err = sto.raised[1]

\* What the code does: only an error that is not a std::system_error fails store.
OnlyOtherErrorsFailStore ==
    sto.pc # "off" =>
        /\ sto.pc = "failed" <=>
              (sto.raised # <<>> /\ sto.raised[Len(sto.raised)].type # "system_error")
        /\ sto.pc = "failed" => sto.err = sto.raised[Len(sto.raised)]

SwallowedStoreError ==
    /\ sto.pc = "done"
    /\ sto.err = NoErr
    /\ Len(sto.raised) = 2
    /\ sto.raised[1] = system_error("ENOSPC")

OverflowFailsStore ==
    /\ sto.pc = "failed"
    /\ sto.err = overflow_error

\* The operations issued on the file of a component, in the order issued.
StepsOn(c) ==
    [i \in 1..Len(SelectSeq(sto.log, LAMBDA e : e[1] = c)) |->
        SelectSeq(sto.log, LAMBDA e : e[1] = c)[i][2]]

StoreSteps == <<"open", "write", "flush", "close">>

\* C15: when store succeeds every component of the table's set has been
\* written, each by the steps open (create, truncate), stream, flush, close
\* in this order, the close issued after the flush completed.
C15_StoreWritesPresent ==
    (sto.pc = "done" /\ sto.err = NoErr) =>
        \A c \in sto.t._components :
            /\ StepsOn(c) = StoreSteps
            /\ c \in DOMAIN sto.files
            /\ sto.files[c].state = "closed"

\* What the code does: the steps on a file are issued in this order, each
\* after the one before it succeeded, and on CompressionInfo and Filter alone.
StoreStepOrder ==
    sto.pc # "off" =>
        \A c \in DOMAIN _component_map :
            /\ \E n \in 0..4 : StepsOn(c) = SubSeq(StoreSteps, 1, n)
            /\ StepsOn(c) # <<>> => c \in {"CompressionInfo", "Filter"} \cap sto.t._components
            /\ c \in DOMAIN sto.files /\ sto.files[c].state = "closed" => StepsOn(c) = StoreSteps

UnwrittenComponents ==
    /\ sto.pc = "done"
    /\ sto.err = NoErr
    /\ sto.raised = <<>>
    /\ "Statistics" \in sto.t._components
    /\ sto.log = <<<<"CompressionInfo", "open">>, <<"CompressionInfo", "write">>,
                   <<"CompressionInfo", "flush">>, <<"CompressionInfo", "close">>,
                   <<"Filter", "open">>, <<"Filter", "write">>,
                   <<"Filter", "flush">>, <<"Filter", "close">>>>

-----------------------------------------------------------------------------
(* sstable::data_read                                                      *)

\* make_compressed_file_input_stream: a stream of what the file
\* decompresses to, from pos on.
compressed_file_input_stream(payload, pos) == seek(Reader(payload, FALSE), pos)

\* make_file_input_stream(_data_file, pos)
file_input_stream(file, pos) == seek(Reader(file, FALSE), pos)

\* data_stream_at(pos)
data_stream_at(d, pos) ==
    IF d.compressed THEN compressed_file_input_stream(d.payload, pos)
    ELSE file_input_stream(d.file, pos)

\* The future of data_read: the buffer of read_exactly as it came, or the
\* error of the read.
data_read_then(r, io) ==
    IF io # "ok" THEN [err |-> system_error(io), buf |-> <<>>]
    ELSE [err |-> NoErr, buf |-> r.buf]

\* data_read(pos, len)
data_read(d, pos, len, io) == data_read_then(read_exactly(data_stream_at(d, pos), len), io)

-----------------------------------------------------------------------------
(* SpecDataRead: data_read on small data files                             *)

MaxData == 3

DataBytes == {7, 9}

\* Positions and lengths within, at and past the end, and one beyond 2^32.
Places == {FromNat(n, 8) : n \in 0..(MaxData + 1)} \cup {<<0, 0, 0, 0, 1, 0, 0, 0>>}

\* What the stream delivers when the file is compressed: the file's bytes
\* each twice.
Payload(file) == [i \in 1..(2 * Len(file)) |-> file[(i + 1) \div 2]]

DataReadInit ==
    /\ \E file \in SeqsUpTo(DataBytes, MaxData), compressed \in BOOLEAN,
          pos \in Places, len \in Places :
          dr = [pc |-> "call", file |-> file, payload |-> Payload(file),
                compressed |-> compressed, pos |-> pos, len |-> len,
                res |-> [err |-> NoErr, buf |-> <<>>]]
    /\ sst = Off /\ mp = Off /\ stt = Off /\ sm = Off /\ ix = Off
    /\ wr = Off /\ sto = Off /\ toc = Off

\* data_read(pos, len), the read succeeding or failing with EIO
DrDataRead ==
    /\ dr.pc = "call"
    /\ \E io \in {"ok", "EIO"} :
          dr' = [dr EXCEPT !.res = data_read(dr, dr.pos, dr.len, io), !.pc = "done"]
    /\ UNCHANGED <<sst, mp, stt, sm, ix, wr, sto, toc>>

DataReadNext == DrDataRead

SpecDataRead == DataReadInit /\ [][DataReadNext]_vars

\* The bytes of the data stream.
DataStream == IF dr.compressed THEN dr.payload ELSE dr.file

\* C16: data_read(pos, len) completes with the len bytes of the data stream
\* that start at pos, or it fails; it does not succeed with fewer.
C16_DataReadExact ==
    (dr.pc = "done" /\ dr.res.err = NoErr) =>
        /\ IsSmall(dr.len)
        /\ Len(dr.res.buf) = ToNat(dr.len)
        /\ \A i \in 1..Len(dr.res.buf) :
              /\ IsSmall(dr.pos)
              /\ ToNat(dr.pos) + i <= Len(DataStream)
              /\ dr.res.buf[i] = DataStream[ToNat(dr.pos) + i]

\* A position or length, at most n.
Clip(v, n) == IF IsSmall(v) THEN Min(ToNat(v), n) ELSE n

\* What the code does: the bytes from pos on, as many as there are up to len.
DataReadUpTo ==
    (dr.pc = "done" /\ dr.res.err = NoErr) =>
        dr.res.buf =
            SubSeq(DataStream, Clip(dr.pos, Len(DataStream)) + 1,
                   Clip(dr.pos, Len(DataStream))
                       + Clip(dr.len, Len(DataStream) - Clip(dr.pos, Len(DataStream))))

ShortDataRead ==
    /\ dr.pc = "done"
    /\ dr.res.err = NoErr
    /\ ~dr.compressed
    /\ dr.file = <<7, 9, 7>>
    /\ dr.pos = FromNat(2, 8)
    /\ dr.len = FromNat(2, 8)
    /\ dr.res.buf = <<7>>

-----------------------------------------------------------------------------
(* SpecToc: read_toc on a fresh table, over TOC files of a few lines and   *)
(* files about a page long                                                 *)

MaxTocLines == 3

\* Three of the names, two that are no name, and the empty line.
TocLines == {<<"Data.db">>, <<"Index.db">>, <<"TOC.txt">>, <<"Unknown.db">>, <<"data.db">>, <<>>}

\* Each of the nine names as the only line.
OneLineFiles == {<<_component_map[k], "\n">> : k \in component_type}

\* The lines joined by "\n", with as many "\n" after the last as given.
TocFile(lines, trailing) ==
    Concat([i \in 1..Len(lines) |-> IF i = 1 THEN lines[i] ELSE <<"\n">> \o lines[i]])
        \o [i \in 1..trailing |-> "\n"]

\* 215 lines of 19 bytes and one of 9: 4094 bytes, to which "\n" are added.
PageFile(trailing) ==
    [i \in 1..(432 + trailing) |->
        IF i > 431 \/ i % 2 = 0 THEN "\n"
        ELSE IF i = 431 THEN "Index.db" ELSE "CompressionInfo.db"]

TocInit ==
    /\ \/ \E lines \in SeqsUpTo(TocLines, MaxTocLines), trailing \in 0..1 :
             toc = [pc |-> "call", file |-> TocFile(lines, trailing), status |-> "ok",
                    t |-> NewSSTable]
       \/ \E trailing \in 0..3 :
             toc = [pc |-> "call", file |-> PageFile(trailing), status |-> "ok",
                    t |-> NewSSTable]
       \/ \E file \in OneLineFiles :
             toc = [pc |-> "call", file |-> file, status |-> "ok", t |-> NewSSTable]
    /\ sst = Off /\ mp = Off /\ stt = Off /\ sm = Off /\ ix = Off
    /\ wr = Off /\ sto = Off /\ dr = Off

\* read_toc(), the open and the read succeeding or throwing
TocRead ==
    /\ toc.pc = "call"
    /\ \E status \in {"ok", "ENOENT", "EIO"} :
          toc' = [toc EXCEPT !.t = read_toc(toc.t, status, toc.file),
                             !.status = status, !.pc = "done"]
    /\ UNCHANGED <<sst, mp, stt, sm, ix, wr, sto, dr>>

TocNext == TocRead

SpecToc == TocInit /\ [][TocNext]_vars

\* The file was opened and read.
TocWasRead == toc.pc = "done" /\ toc.status = "ok"

\* The places of the line feeds of the file, and its two ends.
Breaks == {0, Len(toc.file) + 1} \cup {i \in 1..Len(toc.file) : toc.file[i] = "\n"}

NextBreak(a) == CHOOSE b \in Breaks : b > a /\ \A c \in Breaks : c > a => b <= c

\* The line that starts after the break a.
LineAt(a) == SubSeq(toc.file, a + 1, NextBreak(a) - 1)

LineStarts == Breaks \ {Len(toc.file) + 1}

KnownLine(line) == \E k \in component_type : line = <<_component_map[k]>>

UnknownStarts == {a \in LineStarts : LineAt(a) # <<>> /\ ~KnownLine(LineAt(a))}

FirstUnknown == LineAt(CHOOSE a \in UnknownStarts : \A b \in UnknownStarts : a <= b)

NamedComponents == {k \in component_type : \E a \in LineStarts : LineAt(a) = <<_component_map[k]>>}

TooBig == ByteSize(toc.file) >= 4096

\* C17: a TOC that was read fails, with malformed_sstable_exception, when a
\* non-empty line is none of the nine names ("Unrecognized TOC component: "
\* and the line), when no component is named ("Empty TOC"), or when 4096
\* bytes or more were read; and in no other case.
C17_TocValidation ==
    TocWasRead =>
        /\ Cardinality(component_type) = 9
        /\ toc.t.err # NoErr <=> (TooBig \/ UnknownStarts # {} \/ NamedComponents = {})
        /\ toc.t.err # NoErr => toc.t.err.type = "malformed_sstable_exception"
        /\ (~TooBig /\ UnknownStarts # {}) =>
              toc.t.err.msg = <<"Unrecognized TOC component: ">> \o FirstUnknown
        /\ (~TooBig /\ UnknownStarts = {} /\ NamedComponents = {}) =>
              toc.t.err.msg = <<"Empty TOC">>

C17_Witness ==
    /\ TocWasRead
    /\ toc.file = <<"Data.db", "\n", "Unknown.db", "\n">>
    /\ toc.t.err = malformed_sstable_exception(<<"Unrecognized TOC component: ", "Unknown.db">>)

EmptyTocFails ==
    /\ TocWasRead
    /\ toc.file = <<"\n">>
    /\ toc.t.err = malformed_sstable_exception(<<"Empty TOC">>)

PageTocFails ==
    /\ TocWasRead
    /\ ByteSize(toc.file) = 4096
    /\ UnknownStarts = {}
    /\ toc.t.err.type = "malformed_sstable_exception"

\* C18: a TOC of fewer than 4096 bytes that was read, whose non-empty lines
\* are all among the nine names and which has such a line, is read with
\* success, and the set of components is that of the kinds its lines name,
\* whatever empty or repeated lines it has.
C18_TocComponents ==
    (TocWasRead /\ ~TooBig /\ UnknownStarts = {} /\ NamedComponents # {}) =>
        /\ toc.t.err = NoErr
        /\ toc.t._components = NamedComponents

C18_Witness ==
    /\ TocWasRead
    /\ toc.file = <<"Data.db", "\n", "\n", "Data.db", "\n">>
    /\ toc.t.err = NoErr
    /\ toc.t._components = {"Data"}

LargestToc ==
    /\ TocWasRead
    /\ ByteSize(toc.file) = 4095
    /\ toc.t.err = NoErr
    /\ toc.t._components = {"CompressionInfo", "Index"}

=============================================================================
